---------------------------- MODULE Spec2Model ----------------------------
(***************************************************************************)
(* Model of the device-side bootstrap loader (src/device/bootstrap.py) of  *)
(* the CO2 monitor, together with the parts of the device runtime          *)
(* (src/device/co2_sensor.py) the loader observes: the exit code of the    *)
(* main process, the removal of version.json before exit 100, and the      *)
(* health marker written in self-check mode.                               *)
(*                                                                         *)
(* The install directory is the function disk from paths to file contents. *)
(* The loader is a sequential program; pc is its position.  Every step at  *)
(* which the loader blocks on I/O or on a subprocess is a position of its  *)
(* own, so that a power cut (Reboot) can fall between any two of them.     *)
(***************************************************************************)
EXTENDS Integers, Sequences, FiniteSets, TLC

(***************************************************************************)
(* Bounds of the model.                                                    *)
(***************************************************************************)
\* Release dates offered by the update server are 2025-01-01 .. 2025-01-MaxDay.
MaxDay == 2
\* How many times the cycle is started again, by a force update or by a power
\* cut that makes systemd start the loader anew.
MaxRestarts == 1

(***************************************************************************)
(* Program constants.                                                      *)
(***************************************************************************)
MAX_DOWNLOAD_RETRIES == 3
FORCE_UPDATE_CODE == 100

MAIN_SCRIPT == "main.py"
CONFIG_FILE == "config.json"
VERSION_FILE == "version.json"
HEALTH_CHECK_FILE == ".health_ok"
BACKUP_DIR == "backup"
REQ_FILE == "requirements.txt"

\* The managed files, in the order create_backup and rollback walk them.
ManagedFiles == <<MAIN_SCRIPT, CONFIG_FILE, VERSION_FILE>>

\* BACKUP_DIR / filename
BackupPath(f) ==
    CASE f = MAIN_SCRIPT -> "backup/main.py"
      [] f = CONFIG_FILE -> "backup/config.json"
      [] f = VERSION_FILE -> "backup/version.json"

\* A variant of TempPath for comparison: the download is written straight to its destination.
TempPathInPlace(dest) == dest

\* dest.with_suffix(".tmp")
TempPath(dest) ==
    CASE dest = MAIN_SCRIPT -> "main.tmp"
      [] dest = CONFIG_FILE -> "config.tmp"

Paths ==
    {MAIN_SCRIPT, CONFIG_FILE, VERSION_FILE, HEALTH_CHECK_FILE, BACKUP_DIR, REQ_FILE,
     "main.tmp", "config.tmp",
     "backup/main.py", "backup/config.json", "backup/version.json"}

(***************************************************************************)
(* File contents.                                                          *)
(***************************************************************************)
Absent == [kind |-> "absent"]
\* A file that was opened for writing and not written to its end.
Partial == [kind |-> "partial"]
Directory == [kind |-> "dir"]
Marker == [kind |-> "marker"]
Requirements == [kind |-> "requirements"]
Script(s) == [kind |-> "script", id |-> s]
Config(c) == [kind |-> "config", id |-> c]
VersionFile(v, d, h) == [kind |-> "version", version |-> v, date |-> d, hash |-> h]

Exists(d, p) == d[p] # Absent

\* Firmware images the server can hand out, and their MD5 hexdigests.
ScriptIds == {"sA", "sB"}
Md5(c) ==
    CASE c = Script("sA") -> "hA"
      [] c = Script("sB") -> "hB"
      [] OTHER -> "hOther"

\* A date string "YYYY-MM-DD" is the triple <<YYYY, MM, DD>>.
EpochDate == <<1970, 1, 1>>
ServerDates == {<<2025, 1, d>> : d \in 1..MaxDay}
\* A string strptime rejects.
BadDate == <<0, 0, 0>>

\* datetime.strptime(s, "%Y-%m-%d"), as a number ordered like the datetime.
strptime(s) == s[1] * 10000 + s[2] * 100 + s[3]

Parseable(s) == s # BadDate

\* FIRMWARE_VERSION of the release of a given FIRMWARE_DATE.
FirmwareVersion(date) == <<2, 0, date[3]>>

\* What GET /api/device/manifest can return: hash is "" when the server has no script.
Manifests ==
    {[version |-> FirmwareVersion(d), date |-> d, hash |-> h] :
        d \in ServerDates, h \in {"", "hA", "hB"}}
NoManifest == [version |-> <<0, 0, 0>>, date |-> BadDate, hash |-> "none"]

DefaultVersion == [version |-> <<0, 0, 0>>, date |-> EpochDate, hash |-> ""]


(***************************************************************************)
(* Pure functions of bootstrap.py.                                         *)
(***************************************************************************)
\* get_local_version: the record in version.json; the default when the file
\* is missing or json.load raises on it.
get_local_version(d) ==
    IF d[VERSION_FILE].kind = "version"
    THEN [version |-> d[VERSION_FILE].version,
          date |-> d[VERSION_FILE].date,
          hash |-> d[VERSION_FILE].hash]
    ELSE DefaultVersion

\* A variant of needs_update for comparison: equal hashes settle the question without the dates.
needs_updateHashOnly(local, server) ==
    IF local.hash # "" /\ server.hash # ""
    THEN local.hash # server.hash
    ELSE /\ Parseable(local.date) /\ Parseable(server.date)
         /\ strptime(server.date) > strptime(local.date)

\* A variant of needs_update for comparison: an equal date counts as later.
needs_updateSameDate(local, server) ==
    IF local.hash # "" /\ server.hash # "" /\ local.hash # server.hash
    THEN TRUE
    ELSE IF Parseable(local.date) /\ Parseable(server.date)
         THEN strptime(server.date) >= strptime(local.date)
         ELSE FALSE

\* needs_update: differing non-empty hashes, else a later server date.
needs_update(local, server) ==
    IF local.hash # "" /\ server.hash # "" /\ local.hash # server.hash
    THEN TRUE
    ELSE IF Parseable(local.date) /\ Parseable(server.date)
         THEN strptime(server.date) > strptime(local.date)
         ELSE FALSE

\* shutil.copy2(src, dst) guarded by src.exists()
Copy2(d, src, dst) == IF Exists(d, src) THEN [d EXCEPT ![dst] = d[src]] ELSE d

\* The first n files of ManagedFiles copied into BACKUP_DIR.
RECURSIVE BackupFirst(_, _)
BackupFirst(d, n) ==
    IF n = 0 THEN d
    ELSE Copy2(BackupFirst(d, n - 1), ManagedFiles[n], BackupPath(ManagedFiles[n]))

\* The first n files of ManagedFiles copied back from BACKUP_DIR.
RECURSIVE RestoreFirst(_, _)
RestoreFirst(d, n) ==
    IF n = 0 THEN d
    ELSE Copy2(RestoreFirst(d, n - 1), BackupPath(ManagedFiles[n]), ManagedFiles[n])

\* Where a copy loop raises: NoFault, 0 (BACKUP_DIR.mkdir raises) or the index
\* of the file whose copy2 raises.
NoFault == Len(ManagedFiles) + 1

\* The disk after create_backup.  A copy2 that raises has not written its
\* destination; the files before it are copied.
create_backup(d, fault) ==
    IF ~Exists(d, MAIN_SCRIPT) THEN d
    ELSE IF fault = 0 THEN d
    ELSE LET made == [d EXCEPT ![BACKUP_DIR] = Directory] IN
         IF fault = NoFault THEN BackupFirst(made, Len(ManagedFiles))
         ELSE BackupFirst(made, fault - 1)

\* The faults that can happen in create_backup on disk d.
BackupFaults(d) ==
    {NoFault} \cup
    {k \in 0..3 : Exists(d, MAIN_SCRIPT) /\ (k > 0 => Exists(d, ManagedFiles[k]))}

\* The disk after rollback.
rollbackDisk(d, fault) ==
    IF ~Exists(d, BACKUP_DIR) THEN d
    ELSE IF fault = NoFault THEN RestoreFirst(d, Len(ManagedFiles))
    ELSE RestoreFirst(d, fault - 1)

\* What rollback returns.
rollbackResultOf(d, fault) == Exists(d, BACKUP_DIR) /\ fault = NoFault

\* The faults that can happen in rollback on disk d.
RollbackFaults(d) ==
    {NoFault} \cup
    {k \in 1..3 : Exists(d, BACKUP_DIR) /\ Exists(d, BackupPath(ManagedFiles[k]))}

\* verify_hash: no declared hash is trusted; an unreadable file fails.
verify_hash(d, path, expected_hash) ==
    IF expected_hash = "" THEN TRUE
    ELSE IF ~Exists(d, path) THEN FALSE
    ELSE Md5(d[path]) = expected_hash

\* A variant of version_info for comparison: the record keeps the previous record's date.
version_infoOldDate(m, local) == VersionFile(m.version, local.date, m.hash)

\* The record download_update writes to version.json.
version_info(m, local) == VersionFile(m.version, m.date, m.hash)


(***************************************************************************)
(* State.                                                                  *)
(***************************************************************************)
VARIABLES
    disk,            \* the install directory: path -> content
    pc,              \* the loader's position
    local_version,   \* main(): local_version
    manifest,        \* main(): manifest (NoManifest for None)
    dest,            \* download_file(): dest
    attempt,         \* download_file(): attempt
    content,         \* download_file(): content
    process,         \* run_health_check(): the self-check subprocess
    returncode,      \* run_main_script(): result.returncode (NotExited before an exit)
    restarts,        \* how many times the cycle was started again
    \* History of the update part of the current cycle, read by the properties only.
    pre,             \* the managed files as they were when BACKUP was entered
    decision,        \* "none" | "unreachable" | "update" | "uptodate"
    backupFault,     \* create_backup raised, or made no snapshot
    dlResult,        \* "none" | "ok" | "failed" | "hash_mismatch"
    hcResult,        \* "none" | "pass" | "fail"
    rollbackResult,  \* "none" | "ok" | "failed"
    \* The device runtime (co2_sensor.py), one process.
    rpc,                     \* main(): the runtime's position
    health_check_mode,       \* main(): "--health-check" in sys.argv
    exit_code,               \* the code the runtime exited with (NotExited before)
    now,                     \* time.time(), in seconds
    initialized,             \* SCD41Sensor.initialized
    readings_to_skip,        \* SCD41Sensor._readings_to_skip
    attempts,                \* run_health_check(): reads made so far
    connected,               \* CO2MQTTClient.connected
    running,                 \* CO2MQTTClient.running
    force_update_requested,  \* CO2MQTTClient._force_update_requested
    display_enabled,         \* CO2MQTTClient._display_enabled
    send_interval,           \* CO2MQTTClient.config["send_interval"]
    live_mode_until,         \* CO2MQTTClient._live_mode_until
    cached_reading,          \* CO2MQTTClient._cached_reading
    cached_reading_time,     \* CO2MQTTClient._cached_reading_time
    last_display_update,     \* run(): last_display_update
    last_mqtt_send,          \* run(): last_mqtt_send
    screen,                  \* what the physical display shows
    status_topic,            \* the last message published on devices/D/status
    raised,                  \* an exception is propagating out of run()
    \* History of the runtime, read by the properties only.
    tick,                    \* what the last turn of the poll loop did
    good,                    \* the last non-null reading the poll loop obtained
    checks,                  \* run_health_check(): the checks passed so far
    stopped_by,              \* what first cleared the running flag
    \* The part of the runtime's state that only config pushes and
    \* calibration touch.
    mqtt_broker,             \* CO2MQTTClient.config["mqtt_broker"]
    \* The report scheduler of the server (app/services/scheduler.py).
    utc,                     \* the wall clock, in minutes since day 0, 00:00 UTC
    next_user,               \* _check_and_send_reports(): position in the user list
    users,                   \* the rows of the users table
    last_morning_check,      \* ReportScheduler._last_morning_check
    last_evening_check,      \* ReportScheduler._last_evening_check
    reports,                 \* history: the reports fired, with the local date and time
    repeats,                 \* history: the reports fired again on the same local date
    resent,                  \* history: those of them fired after a send that returned
    \* The command publisher of the server (app/mqtt/main.py).
    call,                    \* the last call of publish_device_command and its outcome
    broker_calls,            \* the publish() calls it made on a broker client
    \* The sensor seen from its driver (co2_sensor.py SCD41Sensor).
    measuring,               \* the SCD41 is in periodic measurement
    last_read,               \* history: the last read(), what it found and returned
    calibration              \* history: the last calibrate command and the driver calls it made

loaderVars == <<pc, local_version, manifest, dest, attempt, content, process,
                returncode>>
historyVars == <<pre, decision, backupFault, dlResult, hcResult, rollbackResult>>
runtimeVars == <<rpc, health_check_mode, exit_code, now, initialized, readings_to_skip,
                 attempts, connected, running, force_update_requested, display_enabled,
                 send_interval, live_mode_until, cached_reading, cached_reading_time,
                 last_display_update, last_mqtt_send, screen, status_topic, raised,
                 tick, good, checks, stopped_by>>
schedulerVars == <<utc, next_user, users, last_morning_check, last_evening_check,
                   reports, repeats, resent>>
publisherVars == <<call, broker_calls>>
sensorVars == <<measuring, last_read, calibration>>
restVars == <<mqtt_broker, schedulerVars, publisherVars, sensorVars>>
vars == <<disk, restarts, loaderVars, historyVars, runtimeVars, restVars>>

NotExited == 0 - 1

(***************************************************************************)
(* The device runtime (src/device/co2_sensor.py): constants and the pure   *)
(* parts of the sensor, the display cache and the live-mode window.        *)
(***************************************************************************)
\* The clock is read every ClockStep seconds, MaxClockSteps times at most;
\* turns of the poll loop closer together than that read the same time.
ClockStep == 5
MaxClockSteps == 3
\* A live_mode command carries a duration of 0 to MaxDuration twelfths of a
\* minute (the JSON number may be a fraction).
MaxDuration == 1

DISPLAY_INTERVAL == 5
LIVE_MODE_INTERVAL == 5
CACHE_MAX_AGE == 15
DEFAULT_SEND_INTERVAL == 60
SECONDS_PER_MINUTE == 60
\* The durations are counted in 1/DurationUnit minutes.
DurationUnit == SECONDS_PER_MINUTE \div ClockStep
\* command.get("duration", 5): the minutes of a live_mode command that names
\* no duration
DEFAULT_LIVE_MINUTES == 5

\* _execute_command 505-506: the end of the window that a live_mode command
\* received at time t sets; duration is counted in 1/DurationUnit minutes
live_mode_window(has_duration, duration, t) ==
    LET duration_minutes == IF has_duration THEN duration
                            ELSE DEFAULT_LIVE_MINUTES * DurationUnit
    IN t + (duration_minutes * SECONDS_PER_MINUTE) \div DurationUnit
WARMUP_READINGS == 2
\* The waits of the self-check, in seconds: init() for the first
\* measurement, the read loop before each read, read() for the data, and the
\* number of one-second waits for the broker.
SENSOR_WARMUP_WAIT == 5
HEALTH_READ_WAIT == 5
DATA_READY_WAIT == 1
HEALTH_MQTT_WAITS == 5
\* bootstrap.py: the seconds the loader waits for the marker.
HEALTH_CHECK_TIMEOUT == 30
HEALTH_READ_ATTEMPTS == 5

\* time.time() when the runtime starts: far enough from 0 for both cadences
\* to be due at the first turn of the loop.
StartTime == DEFAULT_SEND_INTERVAL
MaxTime == StartTime + MaxClockSteps * ClockStep

\* DEFAULT_CONFIG["mqtt_broker"], and another address a payload may carry
DEFAULT_BROKER == "broker"
OtherBroker == "broker2"

\* sensor.read() -> None
NoReading == "None"
\* The readings the sensor can produce when its data is ready and in range.
Readings == {"r1", "r2"}

\* The display: cleared, a status line, or a reading.
Blank == "blank"
SensorError == "SENSOR ERROR"

\* config.json as the runtime writes it: the in-memory config dumped as JSON.
SavedConfig(si, de) ==
    [kind |-> "config", id |-> "cDevice", send_interval |-> si, display_enabled |-> de]

\* The payloads of the config topic: a JSON object with any of three keys;
\* the value of a key outside fields is not in the payload.
ConfigKeys == {"send_interval", "display_enabled", "mqtt_broker"}
PushedIntervals == {2 * ClockStep, DEFAULT_SEND_INTERVAL}
ConfigPayloads ==
    [fields : SUBSET ConfigKeys, send_interval : PushedIntervals,
     display_enabled : BOOLEAN, mqtt_broker : {OtherBroker}]

\* A variant of apply_config for comparison: the payload replaces the config,
\* keys it lacks fall back to the defaults.
apply_configReplaces(cfg, payload) ==
    [config |->
        [send_interval |-> IF "send_interval" \in payload.fields
                           THEN payload.send_interval ELSE DEFAULT_SEND_INTERVAL,
         display_enabled |-> IF "display_enabled" \in payload.fields
                             THEN payload.display_enabled ELSE TRUE,
         mqtt_broker |-> cfg.mqtt_broker],
     changed |-> TRUE]

\* _apply_config(new_config): the config after it, and whether it is saved.
\* Only the keys send_interval and display_enabled are looked at.
apply_config(cfg, payload) ==
    [config |->
        [send_interval |-> IF "send_interval" \in payload.fields
                           THEN payload.send_interval ELSE cfg.send_interval,
         display_enabled |-> IF "display_enabled" \in payload.fields
                             THEN payload.display_enabled ELSE cfg.display_enabled,
         mqtt_broker |-> cfg.mqtt_broker],
     changed |-> "send_interval" \in payload.fields
                 \/ "display_enabled" \in payload.fields]

\* SCD41Sensor.read(): raw is what the hardware has (NoReading: not ready, out
\* of range, or an I2C error); the first readings after init are skipped.
sensor_read(init, skip, raw) ==
    IF ~init THEN [value |-> NoReading, skip |-> skip]
    ELSE IF raw = NoReading THEN [value |-> NoReading, skip |-> skip]
    ELSE IF skip > 0 THEN [value |-> NoReading, skip |-> skip - 1]
    ELSE [value |-> raw, skip |-> skip]

\* _get_display_data(fresh_reading) at time t: the data to show, and the cache after.
get_display_data(fresh_reading, cache, cache_time, t) ==
    IF fresh_reading # NoReading
    THEN [data |-> fresh_reading, cache |-> fresh_reading, time |-> t]
    ELSE IF cache # NoReading /\ t - cache_time <= CACHE_MAX_AGE
    THEN [data |-> cache, cache |-> cache, time |-> cache_time]
    ELSE [data |-> NoReading, cache |-> cache, time |-> cache_time]

\* _update_display(data): what the display shows after it.
update_display(enabled, data, shown) == IF enabled THEN data ELSE shown

\* A variant of is_live_mode_active for comparison: the window is over when
\* the clock reaches its end.
is_live_mode_activeEarly(until, t) ==
    IF until = 0 THEN [active |-> FALSE, until |-> 0]
    ELSE IF t >= until THEN [active |-> FALSE, until |-> 0]
    ELSE [active |-> TRUE, until |-> until]

\* A variant of is_live_mode_active for comparison: the window never decays.
is_live_mode_activeNoDecay(until, t) ==
    [active |-> until # 0, until |-> until]

\* _is_live_mode_active() at time t: the answer, and the window after.
is_live_mode_active(until, t) ==
    IF until = 0 THEN [active |-> FALSE, until |-> 0]
    ELSE IF t > until THEN [active |-> FALSE, until |-> 0]
    ELSE [active |-> TRUE, until |-> until]

\* A variant of send_telemetry for comparison: the sensor is read again.
send_telemetryRereads(data, raw) ==
    [payload |-> raw, reads |-> 1]

\* _send_telemetry(data): the payload published (NoReading: nothing) and the
\* number of sensor reads it made; raw is what a read would return.
send_telemetry(data, raw) ==
    IF data = NoReading THEN [payload |-> raw, reads |-> 1]
    ELSE [payload |-> data, reads |-> 0]

\* A variant of telemetry_data for comparison: what the display shows is sent.
telemetry_dataShown(reading, display_data) == display_data

\* run() 744-746: the data the loop hands to _send_telemetry, whatever the
\* display path made of the reading
telemetry_data(reading, display_data) == reading

\* A variant of exit_code_of for comparison: the runtime always exits normally.
exit_code_ofNormal(force_update) == 0

\* A variant of after_reconnect for comparison: the exception of
\* client.reconnect() is not caught.
after_reconnectUncaught(raises) == IF raises THEN "raise" ELSE "continue"

\* run() 723-728: client.reconnect() in try / except Exception: pass, then
\* time.sleep(1) and continue, whether the attempt raised or returned.
after_reconnect(raises) == "continue"

\* The exit code of main() after run() returned force_update.
exit_code_of(force_update) == IF force_update THEN FORCE_UPDATE_CODE ELSE 0

\* What a turn of the poll loop did: the cadences that were due, whether the
\* broker was connected, the live-mode answer, the reconnect attempts and the
\* sensor reads made, the reading, what the display path rendered and what
\* was published.
NoTick == [display |-> FALSE, mqtt |-> FALSE, connected |-> FALSE, live |-> "off",
           reconnects |-> 0, reads |-> 0, reading |-> NoReading, shown |-> "none",
           published |-> NoReading]
NoGood == [reading |-> NoReading, time |-> 0]

(***************************************************************************)
(* SCD41Sensor.read() and the calibration, at the level of the driver.     *)
(* CO2 is counted in hundredths of a ppm, temperature in hundredths of a   *)
(* degree and humidity in hundredths of a percent on the driver's side;    *)
(* a reading carries whole ppm and tenths.                                 *)
(***************************************************************************)
Hundredths == 100
CO2_MAX == 40000
TEMPERATURE_MIN == 0 - 10
TEMPERATURE_MAX == 60
HUMIDITY_MAX == 100
DEFAULT_TARGET_CO2 == 420
\* Another target a calibrate command may carry.
CustomTarget == DEFAULT_TARGET_CO2 - 5

\* What the driver can hold when read() runs: whether data_ready is true at
\* once, after the wait of a second or not at all, whether an access to the
\* driver raises ("data_ready", "values") or yields None values, and the
\* values.
Co2Values == {0 - 1, 0, 42050, CO2_MAX * Hundredths, CO2_MAX * Hundredths + 1}
TemperatureValues ==
    {TEMPERATURE_MIN * Hundredths - 4, TEMPERATURE_MIN * Hundredths, 2345,
     TEMPERATURE_MAX * Hundredths - 4, TEMPERATURE_MAX * Hundredths + 4}
HumidityValues == {0 - 1, 0, 4555, HUMIDITY_MAX * Hundredths, HUMIDITY_MAX * Hundredths + 1}
Nominal == [co2 |-> 42050, temperature |-> 2345, humidity |-> 4555]
MeasuredValues ==
    {[Nominal EXCEPT !.co2 = c] : c \in Co2Values}
    \cup {[Nominal EXCEPT !.temperature = t] : t \in TemperatureValues}
    \cup {[Nominal EXCEPT !.humidity = h] : h \in HumidityValues}
Measure(ready, fault, v) ==
    [ready |-> ready, fault |-> fault, co2 |-> v.co2, temperature |-> v.temperature,
     humidity |-> v.humidity]
Measurements ==
    {Measure(ready, fault, Nominal) :
        ready \in {"at_once", "after_wait", "never"},
        fault \in {"none", "data_ready", "values", "none_values"}}
    \cup {Measure("at_once", "none", v) : v \in MeasuredValues}

\* int(x) of a value given in hundredths: truncation towards zero
int(x) == IF x >= 0 THEN x \div Hundredths ELSE 0 - ((0 - x) \div Hundredths)

\* round(x, 1) of a value given in hundredths, in tenths: to the nearest
\* tenth, a tie to the even one
round1(x) ==
    LET q == x \div 10
        r == x % 10
    IN IF r < 5 THEN q
       ELSE IF r > 5 THEN q + 1
       ELSE IF q % 2 = 0 THEN q ELSE q + 1

\* read() 214-222: the physical bounds
in_range(co2, temperature, humidity) ==
    /\ 0 <= co2 /\ co2 <= CO2_MAX * Hundredths
    /\ TEMPERATURE_MIN * Hundredths <= temperature
    /\ temperature <= TEMPERATURE_MAX * Hundredths
    /\ 0 <= humidity /\ humidity <= HUMIDITY_MAX * Hundredths

\* read() -> None, and read() -> {"co2": ..., "temperature": ..., "humidity": ...}
Null == [null |-> TRUE, co2 |-> 0, temperature |-> 0, humidity |-> 0]
Values(co2, temperature, humidity) ==
    [null |-> FALSE, co2 |-> co2, temperature |-> temperature, humidity |-> humidity]

\* read() 188-228: the body of the try block on a measurement m: the value
\* returned, the warm-up counter after it, and whether it raised instead
read_try(skip, m) ==
    LET none == [value |-> Null, skip |-> skip, raised |-> FALSE]
        raise == [value |-> Null, skip |-> skip, raised |-> TRUE]
    IN
    IF m.fault = "data_ready" THEN raise
    ELSE IF m.ready = "never" THEN none
    ELSE IF m.fault = "values" THEN raise
    ELSE IF skip > 0 THEN [none EXCEPT !.skip = skip - 1]
    ELSE IF m.fault = "none_values" THEN raise
    ELSE IF ~in_range(m.co2, m.temperature, m.humidity) THEN none
    ELSE [value |-> Values(int(m.co2), round1(m.temperature), round1(m.humidity)),
          skip |-> skip, raised |-> FALSE]

\* A variant of read for comparison: without the except clause.
readUncaught(init, skip, m) ==
    IF ~init THEN [value |-> Null, skip |-> skip, raised |-> FALSE]
    ELSE read_try(skip, m)

\* SCD41Sensor.read() 180-230: the test of initialized, the try block, and
\* the except clause that turns any exception into None
read(init, skip, m) ==
    IF ~init THEN [value |-> Null, skip |-> skip, raised |-> FALSE]
    ELSE LET body == read_try(skip, m)
         IN IF body.raised THEN [body EXCEPT !.raised = FALSE] ELSE body

\* The driver calls of a calibration, each with whether it returned.
DriverCall(op, target, ok) == [op |-> op, target |-> target, ok |-> ok]
CalibrationSteps == <<"stop_periodic_measurement", "force_calibration", "show_status",
                      "start_periodic_measurement">>
\* The driver calls among them.
CalibrationDriverCalls == <<"stop_periodic_measurement", "force_calibration",
                            "start_periodic_measurement">>

\* A variant of perform_calibration for comparison: after a failure the
\* measurement is not started again.
perform_calibrationNoRestart(init, target_co2, display_on, fails_at, restart_ok) ==
    LET stop == DriverCall("stop_periodic_measurement", 0, fails_at # "stop_periodic_measurement")
        force == DriverCall("force_calibration", target_co2, fails_at # "force_calibration")
        start == DriverCall("start_periodic_measurement", 0,
                            fails_at # "start_periodic_measurement")
    IN
    IF ~init THEN [calls |-> <<>>, log |-> "Calibration failed: sensor not initialized"]
    ELSE IF ~stop.ok THEN [calls |-> <<stop>>, log |-> "Calibration error"]
    ELSE IF ~force.ok THEN [calls |-> <<stop, force>>, log |-> "Calibration error"]
    ELSE IF display_on /\ fails_at = "show_status"
         THEN [calls |-> <<stop, force>>, log |-> "Calibration error"]
    ELSE IF ~start.ok THEN [calls |-> <<stop, force, start>>, log |-> "Calibration error"]
    ELSE [calls |-> <<stop, force, start>>, log |-> "Sensor recalibrated and restarted"]

\* _perform_calibration(target_co2) 543-584: the driver calls it makes, in
\* order, when the call named by fails_at raises ("none": no call raises)
\* and the start of the except clause returns or not
perform_calibration(init, target_co2, display_on, fails_at, restart_ok) ==
    LET stop == DriverCall("stop_periodic_measurement", 0, fails_at # "stop_periodic_measurement")
        force == DriverCall("force_calibration", target_co2, fails_at # "force_calibration")
        start == DriverCall("start_periodic_measurement", 0,
                            fails_at # "start_periodic_measurement")
        again == DriverCall("start_periodic_measurement", 0, restart_ok)
    IN
    IF ~init THEN [calls |-> <<>>, log |-> "Calibration failed: sensor not initialized"]
    ELSE IF ~stop.ok THEN [calls |-> <<stop, again>>, log |-> "Calibration error"]
    ELSE IF ~force.ok THEN [calls |-> <<stop, force, again>>, log |-> "Calibration error"]
    ELSE IF display_on /\ fails_at = "show_status"
         THEN [calls |-> <<stop, force, again>>, log |-> "Calibration error"]
    ELSE IF ~start.ok
         THEN [calls |-> <<stop, force, start, again>>, log |-> "Calibration error"]
    ELSE [calls |-> <<stop, force, start>>, log |-> "Sensor recalibrated and restarted"]

\* Whether the sensor measures after the driver calls, when it did before:
\* the last call that returned decides.
measuring_after(before, calls) ==
    LET returned == {i \in 1..Len(calls) : calls[i].ok}
    IN IF returned = {} THEN before
       ELSE LET last == CHOOSE i \in returned : \A j \in returned : j <= i
            IN calls[last].op = "start_periodic_measurement"

NoRead == [done |-> FALSE]
NoCalibration == [done |-> FALSE]

\* SCD41Sensor.__init__: nothing was read or calibrated
SensorStart ==
    /\ measuring = FALSE
    /\ last_read = NoRead
    /\ calibration = NoCalibration

\* The runtime's variables before main() has done anything.
RuntimeStart ==
    /\ rpc = "main"
    /\ exit_code = NotExited
    /\ now = StartTime
    /\ initialized = FALSE
    /\ readings_to_skip = WARMUP_READINGS
    /\ attempts = 0
    /\ connected = FALSE
    /\ running = FALSE
    /\ force_update_requested = FALSE
    /\ display_enabled = TRUE
    /\ send_interval = DEFAULT_SEND_INTERVAL
    /\ live_mode_until = 0
    /\ cached_reading = NoReading
    /\ cached_reading_time = 0
    /\ last_display_update = 0
    /\ last_mqtt_send = 0
    /\ screen = Blank
    /\ status_topic = "none"
    /\ raised = FALSE
    /\ mqtt_broker = DEFAULT_BROKER
    /\ SensorStart
    /\ tick = NoTick
    /\ good = NoGood
    /\ checks = {}
    /\ stopped_by = "none"

\* Exit codes of the main process: normal, two crashes, force update.
ExitCodes == {0, 1, 2, FORCE_UPDATE_CODE}

NoSnapshot == [f \in {MAIN_SCRIPT, CONFIG_FILE, VERSION_FILE} |-> [kind |-> "unset"]]
Snapshot(d) == [f \in {MAIN_SCRIPT, CONFIG_FILE, VERSION_FILE} |-> d[f]]

EmptyDisk == [p \in Paths |-> Absent]

\* The install directory as install.sh leaves it (src/app/api/main.py builds the
\* package: the script, config.json, requirements.txt and a version.json
\* without a hash).
InstalledDisk(d) ==
    [EmptyDisk EXCEPT ![MAIN_SCRIPT] = Script("sA"),
                      ![CONFIG_FILE] = Config("cDevice"),
                      ![REQ_FILE] = Requirements,
                      ![VERSION_FILE] = VersionFile(FirmwareVersion(d), d, "")]

\* The loader's variables when bootstrap.py starts.
(***************************************************************************)
(* The report scheduler (src/app/services/scheduler.py): times of day,     *)
(* time zones and the once-a-day test.                                     *)
(***************************************************************************)
\* The scheduler is watched for MaxTicks minutes.
MaxTicks == 6

REPORT_WINDOW == 5
MINUTES_PER_HOUR == 60
HOURS_PER_DAY == 24
MinutesPerDay == HOURS_PER_DAY * MINUTES_PER_HOUR
\* The watch starts at 23:56 UTC of day 0.
StartUtc == MinutesPerDay - 4

\* The users and their time zones, as offsets from UTC in minutes: UTC and
\* Europe/Moscow (the default of the column and the fallback of the code).
UserOrder == <<"u1", "u2">>
UserIds == {UserOrder[i] : i \in 1..Len(UserOrder)}
UtcOffset == [u \in UserIds |-> IF u = "u1" THEN 0 ELSE 3 * MINUTES_PER_HOUR]

\* datetime.time(hour, minute)
TimeOfDay(h, m) == [hour |-> h, minute |-> m]
\* The report times a user may have configured: around the watch, in the
\* user's own zone, on both sides of local and of UTC midnight.
ReportTimes(u) ==
    IF u = "u1" THEN {TimeOfDay(23, 57), TimeOfDay(0, 1)}
    ELSE {TimeOfDay(2, 58), TimeOfDay(3, 1)}

AllReportTimes == UNION {ReportTimes(u) : u \in UserIds}

\* datetime.now(tz): the local date (in days) and time of day at t
now_local(t, offset) ==
    LET local == t + offset
    IN [date |-> local \div MinutesPerDay,
        time |-> TimeOfDay((local % MinutesPerDay) \div MINUTES_PER_HOUR,
                           local % MINUTES_PER_HOUR),
        utc |-> t, offset |-> offset]

\* dict.get(user_id) -> None
NeverSent == [date |-> 0 - 1, time |-> TimeOfDay(0, 0), utc |-> 0 - 1, offset |-> 0]

\* A variant of should_send_report for comparison: the window alone decides.
should_send_reportWindowOnly(scheduled_time, current_time, today, last_sent) ==
    LET scheduled_minutes == scheduled_time.hour * MINUTES_PER_HOUR + scheduled_time.minute
        current_minutes == current_time.hour * MINUTES_PER_HOUR + current_time.minute
    IN scheduled_minutes <= current_minutes
       /\ current_minutes < scheduled_minutes + REPORT_WINDOW

\* _should_send_report(user_id, scheduled_time, current_time, today,
\* last_check_dict), with last_sent = last_check_dict.get(user_id)
should_send_report(scheduled_time, current_time, today, last_sent) ==
    LET scheduled_minutes == scheduled_time.hour * MINUTES_PER_HOUR + scheduled_time.minute
        current_minutes == current_time.hour * MINUTES_PER_HOUR + current_time.minute
    IN
    IF ~(scheduled_minutes <= current_minutes
         /\ current_minutes < scheduled_minutes + REPORT_WINDOW)
    THEN FALSE
    ELSE IF last_sent # NeverSent /\ last_sent.date = today
         THEN FALSE
         ELSE TRUE

\* ReportScheduler.__init__: nothing was sent yet; the watch begins.
SchedulerStart ==
    /\ utc = StartUtc
    /\ next_user = 1
    /\ last_morning_check = [u \in DOMAIN users |-> NeverSent]
    /\ last_evening_check = [u \in DOMAIN users |-> NeverSent]
    /\ reports = {}
    /\ repeats = {}
    /\ resent = {}

\* A row of the users table.
UserRow(me, mt, ee, et) ==
    [morning_report_enabled |-> me, morning_report_time |-> mt,
     evening_report_enabled |-> ee, evening_report_time |-> et]

(***************************************************************************)
(* The command publisher (src/app/mqtt/main.py publish_device_command).    *)
(***************************************************************************)
DeviceUids == {"test-device-123"}
CommandNames == {"restart", "force_update", "status", "calibrate", "live_mode"}
\* The keyword arguments a caller may add to the call, as name and value.
KeywordArgs == {[name |-> "target_co2", value |-> "420"],
                [name |-> "duration", value |-> "10"]}
\* What the call finds: the global client of the process, the broker as
\* seen from a temporary connection, and the rc of a publish.
GlobalClients == {"none", "disconnected", "connected"}
TempConnections == {"connects", "no_connection", "raises"}
PublishRcs == {"MQTT_ERR_SUCCESS", "MQTT_ERR_NO_CONN"}

\* f"devices/{device_uid}/commands"
CommandTopic(device_uid) == [device |-> device_uid, channel |-> "commands"]

\* json.dumps({"command": command}): the only key is the command name
command_payload(command) == [command |-> command, params |-> {}]

\* def publish_device_command(device_uid: str, command: str) -> bool: the
\* call binds only when no further argument is passed
accepts_call(params) == params = {}

\* publish_device_command(device_uid, command, **params): what the call
\* returns ("TypeError" when it raises) and the publish() calls it makes
publish_device_command(device_uid, command, params, client, temp, rc) ==
    LET message == [topic |-> CommandTopic(device_uid),
                    payload |-> command_payload(command),
                    qos |-> 1]
        published == [result |-> IF rc = "MQTT_ERR_SUCCESS" THEN "True" ELSE "False",
                      calls |-> <<message>>]
    IN
    IF ~accepts_call(params) THEN [result |-> "TypeError", calls |-> <<>>]
    ELSE IF client = "connected" THEN published
    ELSE IF temp = "connects" THEN published
    ELSE [result |-> "False", calls |-> <<>>]

NoCall == [result |-> "none"]

PublisherStart ==
    /\ call = NoCall
    /\ broker_calls = <<>>

\* The server as the device's specifications leave it: a scheduler over
\* an empty users table, a publisher that was not called.
ServerIdle ==
    /\ users = << >>
    /\ SchedulerStart
    /\ PublisherStart

LoaderStart ==
    /\ pc = "check_local_version"
    /\ local_version = DefaultVersion
    /\ manifest = NoManifest
    /\ dest = MAIN_SCRIPT
    /\ attempt = 0
    /\ content = Absent
    /\ process = "none"
    /\ returncode = NotExited

HistoryStart ==
    /\ pre = NoSnapshot
    /\ decision = "none"
    /\ backupFault = FALSE
    /\ dlResult = "none"
    /\ hcResult = "none"
    /\ rollbackResult = "none"

Init ==
    /\ disk \in {EmptyDisk} \cup {InstalledDisk(d) : d \in ServerDates}
    /\ restarts = 0
    /\ LoaderStart
    /\ HistoryStart
    /\ health_check_mode = FALSE
    /\ RuntimeStart
    /\ ServerIdle

(***************************************************************************)
(* main(): one cycle of the loader.                                        *)
(***************************************************************************)
\* main() 385: local_version = get_local_version()
CheckLocalVersion ==
    /\ pc = "check_local_version"
    /\ local_version' = get_local_version(disk)
    /\ pc' = "query_server"
    /\ pre' = NoSnapshot
    /\ decision' = "none"
    /\ backupFault' = FALSE
    /\ dlResult' = "none"
    /\ hcResult' = "none"
    /\ rollbackResult' = "none"
    /\ UNCHANGED <<restarts, disk, manifest, dest, attempt, content, process,
                   returncode>>
    /\ UNCHANGED <<runtimeVars, restVars>>

\* main() 390: manifest = get_server_manifest(); None on any error
QueryServer ==
    /\ pc = "query_server"
    /\ manifest' \in Manifests \cup {NoManifest}
    /\ pc' = "decide"
    /\ UNCHANGED <<restarts, disk, local_version, dest, attempt, content, process,
                   returncode, historyVars>>
    /\ UNCHANGED <<runtimeVars, restVars>>

\* A variant of Decide for comparison: only "up to date" skips the update.
DecideUpdatesUnlessCurrent ==
    /\ pc = "decide"
    /\ decision' = IF manifest = NoManifest THEN "unreachable"
                   ELSE IF needs_update(local_version, manifest) THEN "update"
                   ELSE "uptodate"
    /\ pc' = IF decision' # "uptodate" THEN "backup" ELSE "install_dependencies"
    /\ UNCHANGED <<restarts, disk, local_version, manifest, dest, attempt, content, process,
                   returncode, pre, backupFault, dlResult, hcResult,
                   rollbackResult>>
    /\ UNCHANGED <<runtimeVars, restVars>>

\* main() 392-420: the three-way branch on the manifest
Decide ==
    /\ pc = "decide"
    /\ decision' = IF manifest = NoManifest THEN "unreachable"
                   ELSE IF needs_update(local_version, manifest) THEN "update"
                   ELSE "uptodate"
    /\ pc' = IF decision' = "update" THEN "backup" ELSE "install_dependencies"
    /\ UNCHANGED <<restarts, disk, local_version, manifest, dest, attempt, content, process,
                   returncode, pre, backupFault, dlResult, hcResult,
                   rollbackResult>>
    /\ UNCHANGED <<runtimeVars, restVars>>

\* main() 399-402: create_backup(), then download_update starts download_file
\* on the main script
CreateBackup ==
    /\ pc = "backup"
    /\ \E fault \in BackupFaults(disk) :
        /\ disk' = create_backup(disk, fault)
        /\ backupFault' = (fault # NoFault \/ ~Exists(disk, MAIN_SCRIPT))
    /\ pre' = Snapshot(disk)
    /\ dest' = MAIN_SCRIPT
    /\ attempt' = 0
    /\ pc' = "dl_fetch"
    /\ UNCHANGED <<restarts, local_version, manifest, content, process, returncode,
                   decision, dlResult, hcResult, rollbackResult>>
    /\ UNCHANGED <<runtimeVars, restVars>>


(***************************************************************************)
(* download_file(url, dest), entered at "dl_fetch" with attempt = 0.       *)
(***************************************************************************)
\* What the server sends for the url that goes with dest.
ServerContent(path) ==
    IF path = MAIN_SCRIPT THEN {Script(s) : s \in ScriptIds} ELSE {Config("cServer")}

\* download_update 217-228: what follows a return of download_file, whose
\* locals go out of scope
DownloadFileReturns(ok) ==
    /\ pc' = IF dest = MAIN_SCRIPT
             THEN (IF ok THEN "verify_hash" ELSE "install_dependencies")
             ELSE "save_version"
    /\ dlResult' = IF dest = MAIN_SCRIPT /\ ~ok THEN "failed" ELSE dlResult
    /\ attempt' = 0
    /\ content' = Absent

\* A variant of DownloadFileRaises for comparison: the next attempt follows
\* at once.
DownloadFileRaisesNoBackoff ==
    IF attempt < MAX_DOWNLOAD_RETRIES - 1
    THEN /\ attempt' = attempt + 1
         /\ pc' = "dl_fetch"
         /\ UNCHANGED <<content, dlResult>>
    ELSE DownloadFileReturns(FALSE)

\* download_file 181-186: the except clause, which sleeps unless this was
\* the last attempt, and the return after the last attempt
DownloadFileRaises ==
    IF attempt < MAX_DOWNLOAD_RETRIES - 1
    THEN /\ pc' = "dl_backoff"
         /\ UNCHANGED <<attempt, content, dlResult>>
    ELSE DownloadFileReturns(FALSE)

\* download_file 184, 166: time.sleep(RETRY_DELAY) returns and the for loop
\* takes the next attempt
DlBackoff ==
    /\ pc = "dl_backoff"
    /\ attempt' = attempt + 1
    /\ pc' = "dl_fetch"
    /\ UNCHANGED <<restarts, disk, local_version, manifest, dest, content, process,
                   returncode, historyVars>>
    /\ UNCHANGED <<runtimeVars, restVars>>

\* download_file 169-170: urlopen and response.read()
DlFetch ==
    /\ pc = "dl_fetch"
    /\ \/ /\ content' \in ServerContent(dest)
          /\ pc' = "dl_open"
          /\ UNCHANGED <<attempt, dlResult>>
       \/ DownloadFileRaises
    /\ UNCHANGED <<restarts, disk, local_version, manifest, dest, process, returncode,
                   pre, decision, backupFault, hcResult, rollbackResult>>
    /\ UNCHANGED <<runtimeVars, restVars>>

\* download_file 173-174: open(temp_path, "wb") creates or truncates the temp file
DlOpen ==
    /\ pc = "dl_open"
    /\ disk' = [disk EXCEPT ![TempPath(dest)] = Partial]
    /\ pc' = "dl_write"
    /\ UNCHANGED <<restarts, local_version, manifest, dest, attempt, content, process,
                   returncode, historyVars>>
    /\ UNCHANGED <<runtimeVars, restVars>>

\* download_file 175: f.write(content), which completes or raises part-way
DlWrite ==
    /\ pc = "dl_write"
    /\ \/ /\ disk' = [disk EXCEPT ![TempPath(dest)] = content]
          /\ pc' = "dl_rename"
          /\ UNCHANGED <<attempt, content, dlResult>>
       \/ /\ DownloadFileRaises
          /\ UNCHANGED disk
    /\ UNCHANGED <<restarts, local_version, manifest, dest, process, returncode,
                   pre, decision, backupFault, hcResult, rollbackResult>>
    /\ UNCHANGED <<runtimeVars, restVars>>

\* download_file 177-179: temp_path.rename(dest); return True
DlRename ==
    /\ pc = "dl_rename"
    /\ disk' = [disk EXCEPT ![TempPath(dest)] = Absent, ![dest] = disk[TempPath(dest)]]
    /\ DownloadFileReturns(TRUE)
    /\ UNCHANGED <<restarts, local_version, manifest, dest, process, returncode,
                   pre, decision, backupFault, hcResult, rollbackResult>>
    /\ UNCHANGED <<runtimeVars, restVars>>

(***************************************************************************)
(* download_update(manifest) after the main script is in place.            *)
(***************************************************************************)
\* download_update 221-228: verify_hash; on mismatch unlink the script and
\* return False; else go on to download the config
VerifyHash ==
    /\ pc = "verify_hash"
    /\ IF verify_hash(disk, MAIN_SCRIPT, manifest.hash)
       THEN /\ dest' = CONFIG_FILE
            /\ attempt' = 0
            /\ pc' = "dl_fetch"
            /\ UNCHANGED <<disk, dlResult>>
       ELSE /\ disk' = [disk EXCEPT ![MAIN_SCRIPT] = Absent]
            /\ dlResult' = "hash_mismatch"
            /\ pc' = "install_dependencies"
            /\ UNCHANGED <<dest, attempt>>
    /\ UNCHANGED <<restarts, local_version, manifest, content, process, returncode,
                   pre, decision, backupFault, hcResult, rollbackResult>>
    /\ UNCHANGED <<runtimeVars, restVars>>

\* download_update 230-243: write version.json; return True
SaveVersion ==
    /\ pc = "save_version"
    /\ disk' = [disk EXCEPT ![VERSION_FILE] = version_info(manifest, local_version)]
    /\ dlResult' = "ok"
    /\ pc' = "install_dependencies_new"
    /\ UNCHANGED <<restarts, local_version, manifest, dest, attempt, content, process,
                   returncode, pre, decision, backupFault, hcResult, rollbackResult>>
    /\ UNCHANGED <<runtimeVars, restVars>>

\* install_dependencies 303-330, called at main() 406 and at main() 423:
\* requirements.txt is created when missing; a failing pip is only logged
InstallDependencies ==
    /\ pc \in {"install_dependencies_new", "install_dependencies"}
    /\ disk' = IF Exists(disk, REQ_FILE) THEN disk
               ELSE [disk EXCEPT ![REQ_FILE] = Requirements]
    /\ pc' = IF pc = "install_dependencies_new" THEN "health_check" ELSE "run_main_script"
    /\ UNCHANGED <<restarts, local_version, manifest, dest, attempt, content, process,
                   returncode, historyVars>>
    /\ UNCHANGED <<runtimeVars, restVars>>


(***************************************************************************)
(* run_health_check() of the loader, and the self-check subprocess         *)
(* (co2_sensor.py --health-check).                                         *)
(***************************************************************************)
\* process.terminate()
Terminate(p) == IF p = "running" THEN "terminated" ELSE p

\* A variant of unlink_marker for comparison: the old marker is left.
unlink_markerKeeps(d) == d

\* run_health_check 260: HEALTH_CHECK_FILE.unlink(missing_ok=True)
unlink_marker(d) == [d EXCEPT ![HEALTH_CHECK_FILE] = Absent]

\* run_health_check 253-274: no script -> False; else unlink the marker, Popen
HealthCheckStart ==
    /\ pc = "health_check"
    /\ IF ~Exists(disk, MAIN_SCRIPT)
       THEN /\ hcResult' = "fail"
            /\ pc' = "rollback"
            /\ UNCHANGED <<disk, process>>
       ELSE /\ disk' = unlink_marker(disk)
            /\ process' = "running"
            /\ pc' = "health_poll"
            /\ UNCHANGED hcResult
    /\ UNCHANGED <<restarts, local_version, manifest, dest, attempt, content, returncode,
                   pre, decision, backupFault, dlResult, rollbackResult>>
    /\ UNCHANGED <<runtimeVars, restVars>>

\* A variant of health_poll for comparison: the exit of the subprocess is
\* tested before the marker.
health_pollExitFirst(in_time, marker, p) ==
    IF in_time
    THEN IF p # "running"
         THEN [result |-> "fail", process |-> p, pc |-> "rollback"]
         ELSE IF marker
         THEN [result |-> "pass", process |-> Terminate(p), pc |-> "install_dependencies"]
         ELSE [result |-> "none", process |-> p, pc |-> "health_poll"]
    ELSE [result |-> "fail", process |-> Terminate(p), pc |-> "rollback"]

\* run_health_check 275-294: one turn of the polling loop (in_time), or the
\* timeout after it, on what the turn finds: the marker file, the subprocess
\* p.  The result, the subprocess afterwards, and where the loader goes
\* (main() 409-416).
health_poll(in_time, marker, p) ==
    IF in_time
    THEN IF marker
         THEN [result |-> "pass", process |-> Terminate(p), pc |-> "install_dependencies"]
         ELSE IF p # "running"
         THEN [result |-> "fail", process |-> p, pc |-> "rollback"]
         ELSE [result |-> "none", process |-> p, pc |-> "health_poll"]
    ELSE [result |-> "fail", process |-> Terminate(p), pc |-> "rollback"]

\* run_health_check 275-294: one turn of the polling loop, or the timeout
\* after it; main() 409-412 takes the result.  The wall clock is the
\* environment's: in_time is time.time() - start_time < HEALTH_CHECK_TIMEOUT
\* as this turn finds it.
HealthCheckPoll ==
    /\ pc = "health_poll"
    /\ \E in_time \in BOOLEAN :
        LET out == health_poll(in_time, Exists(disk, HEALTH_CHECK_FILE), process)
        IN
        /\ process' = out.process
        /\ hcResult' = IF out.result = "none" THEN hcResult ELSE out.result
        /\ pc' = out.pc
    /\ UNCHANGED <<restarts, disk, local_version, manifest, dest, attempt, content,
                   returncode, pre, decision, backupFault, dlResult, rollbackResult>>
    /\ UNCHANGED <<runtimeVars, restVars>>

\* run_health_check 296-298: an exception raised inside the try after the
\* Popen (by print() in log(), by HEALTH_CHECK_FILE.exists(), by communicate()
\* or decode()) is caught, logged, and False is returned; the handler does
\* not touch the subprocess.
HealthCheckRaises ==
    /\ pc = "health_poll"
    /\ hcResult' = "fail"
    /\ pc' = "rollback"
    /\ UNCHANGED <<restarts, disk, local_version, manifest, dest, attempt, content,
                   process, returncode, pre, decision, backupFault, dlResult,
                   rollbackResult>>
    /\ UNCHANGED <<runtimeVars, restVars>>

\* co2_sensor.py run_health_check 829-833: every check passed, the marker is written
SelfCheckWritesMarker ==
    /\ process = "running"
    /\ ~Exists(disk, HEALTH_CHECK_FILE)
    /\ disk' = [disk EXCEPT ![HEALTH_CHECK_FILE] = Marker]
    /\ UNCHANGED <<restarts, loaderVars, historyVars>>
    /\ UNCHANGED <<runtimeVars, restVars>>

\* co2_sensor.py main 855-859: sys.exit(0 if success else 1), with the marker
\* written before an exit 0 and not written before an exit 1
SelfCheckExits ==
    /\ process = "running"
    /\ process' = "exited"
    /\ UNCHANGED <<restarts, disk, pc, local_version, manifest, dest, attempt, content,
                   returncode, historyVars>>
    /\ UNCHANGED <<runtimeVars, restVars>>

\* main() 413-416: rollback()
Rollback ==
    /\ pc = "rollback"
    /\ \E fault \in RollbackFaults(disk) :
        /\ disk' = rollbackDisk(disk, fault)
        /\ rollbackResult' = IF rollbackResultOf(disk, fault) THEN "ok" ELSE "failed"
    /\ pc' = "install_dependencies"
    /\ UNCHANGED <<restarts, local_version, manifest, dest, attempt, content, process,
                   returncode, pre, decision, backupFault, dlResult, hcResult>>
    /\ UNCHANGED <<runtimeVars, restVars>>

(***************************************************************************)
(* run_main_script(), and the exit of the main process.                    *)
(***************************************************************************)
\* A variant of runtime_exit for comparison: exit 100 leaves version.json in place.
runtime_exitKeepsVersion(d, code) == d

\* co2_sensor.py main 887-900: version.json is unlinked before sys.exit(100)
runtime_exit(d, code) ==
    IF code = FORCE_UPDATE_CODE THEN [d EXCEPT ![VERSION_FILE] = Absent] ELSE d

\* A variant of AfterExit for comparison: a crash restarts the update cycle.
AfterExitCrashRestarts(code) ==
    IF code = 0 THEN "stopped" ELSE "check_local_version"

\* run_main_script 357-370 and main() 427-435: where the loader goes on an
\* exit code of the main process
AfterExit(code) ==
    IF code = FORCE_UPDATE_CODE THEN "check_local_version"
    ELSE IF code = 0 THEN "stopped"
    ELSE "cooldown"

\* run_main_script 341-355: no script -> return False (main() then stops);
\* else subprocess.run starts the main process: the update part of the cycle
\* is over and its history is dropped, with the values main() and its calls
\* held for it (local_version, manifest, the dest of download_file, the
\* Popen object of run_health_check), none of which is read again.
RunMainScript ==
    /\ pc = "run_main_script"
    /\ pc' = IF Exists(disk, MAIN_SCRIPT) THEN "main_running" ELSE "stopped"
    /\ returncode' = NotExited
    /\ IF Exists(disk, MAIN_SCRIPT)
       THEN /\ pre' = NoSnapshot
            /\ decision' = "none"
            /\ backupFault' = FALSE
            /\ dlResult' = "none"
            /\ hcResult' = "none"
            /\ rollbackResult' = "none"
       ELSE UNCHANGED historyVars
    /\ local_version' = DefaultVersion
    /\ manifest' = NoManifest
    /\ dest' = MAIN_SCRIPT
    /\ process' = IF process = "running" THEN process ELSE "none"
    /\ UNCHANGED <<restarts, disk, attempt, content>>
    /\ UNCHANGED <<runtimeVars, restVars>>

\* The main process exits; subprocess.run returns its code
MainProcessExits ==
    /\ pc = "main_running"
    /\ \E code \in ExitCodes :
        /\ (code = FORCE_UPDATE_CODE => restarts < MaxRestarts)
        /\ returncode' = code
        /\ disk' = runtime_exit(disk, code)
    /\ pc' = "main_exited"
    /\ UNCHANGED <<restarts, local_version, manifest, dest, attempt, content, process,
                   historyVars>>
    /\ UNCHANGED <<runtimeVars, restVars>>

\* run_main_script 357-370: the branch on result.returncode
HandleExit ==
    /\ pc = "main_exited"
    /\ pc' = AfterExit(returncode)
    /\ restarts' = IF pc' = "check_local_version" THEN restarts + 1 ELSE restarts
    /\ UNCHANGED <<disk, local_version, manifest, dest, attempt, content, process,
                   returncode, historyVars>>
    /\ UNCHANGED <<runtimeVars, restVars>>

\* run_main_script 370, 352: time.sleep(30) is over, the same script is run again
Respawn ==
    /\ pc = "cooldown"
    /\ pc' = "main_running"
    /\ returncode' = NotExited
    /\ UNCHANGED <<restarts, disk, local_version, manifest, dest, attempt, content, process,
                   historyVars>>
    /\ UNCHANGED <<runtimeVars, restVars>>

\* The device loses power or the service is killed, and systemd starts
\* bootstrap.py again: every process is gone, the disk is as it was.
Reboot ==
    /\ restarts < MaxRestarts
    /\ restarts' = restarts + 1
    /\ pc' = "check_local_version"
    /\ local_version' = DefaultVersion
    /\ manifest' = NoManifest
    /\ dest' = MAIN_SCRIPT
    /\ attempt' = 0
    /\ content' = Absent
    /\ process' = "none"
    /\ returncode' = NotExited
    /\ pre' = NoSnapshot
    /\ decision' = "none"
    /\ backupFault' = FALSE
    /\ dlResult' = "none"
    /\ hcResult' = "none"
    /\ rollbackResult' = "none"
    /\ UNCHANGED disk
    /\ UNCHANGED <<runtimeVars, restVars>>

Next ==
    \/ CheckLocalVersion
    \/ QueryServer
    \/ Decide
    \/ CreateBackup
    \/ DlFetch
    \/ DlBackoff
    \/ DlOpen
    \/ DlWrite
    \/ DlRename
    \/ VerifyHash
    \/ SaveVersion
    \/ InstallDependencies
    \/ HealthCheckStart
    \/ HealthCheckPoll
    \/ SelfCheckWritesMarker
    \/ SelfCheckExits
    \/ Rollback
    \/ RunMainScript
    \/ MainProcessExits
    \/ HandleExit
    \/ Respawn
    \/ Reboot

Spec == Init /\ [][Next]_vars

\* The loader with the internal-error return of run_health_check.
NextHealthCheck ==
    \/ CheckLocalVersion
    \/ QueryServer
    \/ Decide
    \/ CreateBackup
    \/ DlFetch
    \/ DlBackoff
    \/ DlOpen
    \/ DlWrite
    \/ DlRename
    \/ VerifyHash
    \/ SaveVersion
    \/ InstallDependencies
    \/ HealthCheckStart
    \/ HealthCheckPoll
    \/ HealthCheckRaises
    \/ SelfCheckWritesMarker
    \/ SelfCheckExits
    \/ Rollback
    \/ RunMainScript
    \/ MainProcessExits
    \/ HandleExit
    \/ Respawn
    \/ Reboot

SpecHealthCheck == Init /\ [][NextHealthCheck]_vars

(***************************************************************************)
(* co2_sensor.py main(): self-check mode (run_health_check).               *)
(***************************************************************************)
\* What no step of the runtime's main(), self-check, loop or commands changes.
loaderSide == <<restarts, loaderVars, historyVars, restVars>>
clientVars == <<connected, running, force_update_requested, display_enabled,
                send_interval, live_mode_until, cached_reading, cached_reading_time,
                last_display_update, last_mqtt_send, screen, status_topic, raised,
                tick, good, stopped_by>>

\* main() 854-856, 861-876: the branch on "--health-check"; in normal mode
\* the display shows status lines and the sensor is initialised, which may fail
Main ==
    /\ rpc = "main"
    /\ IF health_check_mode
       THEN /\ rpc' = "hc_init"
            /\ UNCHANGED <<initialized, screen>>
       ELSE /\ rpc' = "connect"
            /\ initialized' \in BOOLEAN
            /\ screen' = "Connecting..."
    /\ UNCHANGED <<disk, loaderSide, health_check_mode, exit_code, now, readings_to_skip,
                   attempts, connected, running, force_update_requested, display_enabled,
                   send_interval, live_mode_until, cached_reading, cached_reading_time,
                   last_display_update, last_mqtt_send, status_topic, raised,
                   tick, good, checks, stopped_by>>

\* run_health_check 776-779: sensor.init(), which on success has waited for
\* the first measurement (co2_sensor.py 166; the half second of line 159 and
\* the start of the interpreter are not counted, so the clock of the
\* self-check is never ahead of the real one)
HcSensorInit ==
    /\ rpc = "hc_init"
    /\ \E ok \in BOOLEAN :
        /\ initialized' = ok
        /\ checks' = IF ok THEN checks \cup {"sensor"} ELSE checks
        /\ rpc' = IF ok THEN "hc_read" ELSE "hc_exit"
        /\ now' = IF ok THEN now + SENSOR_WARMUP_WAIT ELSE now
    /\ UNCHANGED <<disk, loaderSide, health_check_mode, exit_code, readings_to_skip,
                   attempts, clientVars>>

\* run_health_check 781-795: one turn of the read loop, time.sleep(5) and
\* sensor.read() with or without its wait for the data (193), and the test
\* after it
HcRead ==
    /\ rpc = "hc_read"
    /\ \E raw \in Readings \cup {NoReading}, wait \in {0, DATA_READY_WAIT} :
        LET r == sensor_read(initialized, readings_to_skip, raw) IN
        /\ readings_to_skip' = r.skip
        /\ attempts' = attempts + 1
        /\ now' = now + HEALTH_READ_WAIT + wait
        /\ IF r.value # NoReading
           THEN /\ checks' = checks \cup {"reading"}
                /\ rpc' = "hc_mqtt"
           ELSE /\ rpc' = IF attempts + 1 < HEALTH_READ_ATTEMPTS THEN "hc_read" ELSE "hc_exit"
                /\ UNCHANGED checks
    /\ UNCHANGED <<disk, loaderSide, health_check_mode, exit_code, initialized,
                   clientVars>>

\* run_health_check 796-826: connect to the broker and wait for on_connect,
\* up to 5 times one second (810-813); connected is seen after 0 to 5 of them,
\* and a connect that raises takes none
HcMqtt ==
    /\ rpc = "hc_mqtt"
    /\ \E ok \in BOOLEAN, waits \in 0..HEALTH_MQTT_WAITS :
        /\ checks' = IF ok THEN checks \cup {"mqtt"} ELSE checks
        /\ rpc' = IF ok THEN "hc_write" ELSE "hc_exit"
        /\ now' = now + waits
    /\ UNCHANGED <<disk, loaderSide, health_check_mode, exit_code, initialized,
                   readings_to_skip, attempts, clientVars>>

\* run_health_check 829-836: HEALTH_FILE.write_text: the file is written, or
\* open raises, or the file is created and the write raises
HcWriteMarker ==
    /\ rpc = "hc_write"
    /\ \E outcome \in {Marker, Absent, Partial} :
        /\ disk' = [disk EXCEPT ![HEALTH_CHECK_FILE] = outcome]
        /\ checks' = IF outcome = Marker THEN checks \cup {"written"} ELSE checks
    /\ rpc' = "hc_exit"
    /\ UNCHANGED <<loaderSide, health_check_mode, exit_code, now, initialized,
                   readings_to_skip, attempts, clientVars>>

\* main() 857-859: sensor.stop(); sys.exit(0 if success else 1)
HcExit ==
    /\ rpc = "hc_exit"
    /\ exit_code' = IF "written" \in checks THEN 0 ELSE 1
    /\ rpc' = "exited"
    /\ UNCHANGED <<disk, loaderSide, health_check_mode, now, initialized,
                   readings_to_skip, attempts, clientVars, checks>>

(***************************************************************************)
(* CO2MQTTClient: connect(), run(), and the callbacks of the network       *)
(* thread.                                                                 *)
(***************************************************************************)
\* run() 694-696 and connect() 663-683: loop_start() starts the network
\* thread, whose _on_connect (425-436) sets connected, subscribes to the
\* config and command topics and publishes "online"; connect() returns True
\* when it sees connected within its wait, else run() returns None
Connect ==
    /\ rpc = "connect"
    /\ \E ok \in BOOLEAN :
        IF ok
        THEN /\ connected' = TRUE
             /\ status_topic' = "online"
             /\ rpc' = "connected"
        ELSE /\ rpc' = "returned"
             /\ UNCHANGED <<connected, status_topic>>
    /\ UNCHANGED <<disk, loaderSide, health_check_mode, exit_code, now, initialized,
                   readings_to_skip, attempts, running, force_update_requested,
                   display_enabled, send_interval, live_mode_until, cached_reading,
                   cached_reading_time, last_display_update, last_mqtt_send, screen,
                   raised, tick, good, checks, stopped_by>>

\* run() 698-700: the poll loop thread sets self.running = True, whatever the
\* callbacks did to the flag since the subscription, and enters the while loop
RunStart ==
    /\ rpc = "connected"
    /\ running' = TRUE
    /\ rpc' = "loop"
    /\ UNCHANGED <<disk, loaderSide, health_check_mode, exit_code, now, initialized,
                   readings_to_skip, attempts, connected, force_update_requested,
                   display_enabled, send_interval, live_mode_until, cached_reading,
                   cached_reading_time, last_display_update, last_mqtt_send, screen,
                   status_topic, raised, tick, good, checks, stopped_by>>

\* The callbacks run from loop_start() to loop_stop(), and deliver commands
\* from the subscription in _on_connect on.
NetworkThreadRuns == rpc \in {"connected", "loop", "show", "expire"}

\* A variant of status_after_run for comparison: nothing is published at the end.
status_after_runSilent(status) == status

\* run() 754: client.publish(topic_status, "offline", retain=True)
status_after_run(status) == "offline"

\* run() 753-760: the finally clause (publish "offline", loop_stop,
\* disconnect), after which the locals of run() are gone
Finally ==
    /\ status_topic' = status_after_run(status_topic)
    /\ connected' = FALSE
    /\ rpc' = "returned"
    /\ last_display_update' = 0
    /\ last_mqtt_send' = 0
    /\ tick' = NoTick
    /\ good' = NoGood

\* run() 709-750: a turn of the while loop after _is_live_mode_active()
\* answered live (the answer and the window it leaves); window_set tells
\* whether it found a window
Turn(live, window_set) ==
    /\ LET mqtt_interval == IF live.active THEN LIVE_MODE_INTERVAL ELSE send_interval
           need_display_update ==
               display_enabled /\ now - last_display_update >= DISPLAY_INTERVAL
           need_mqtt_send == now - last_mqtt_send >= mqtt_interval
           head == [NoTick EXCEPT !.display = need_display_update,
                                  !.mqtt = need_mqtt_send,
                                  !.connected = connected,
                                  !.live = IF live.active THEN "active"
                                           ELSE IF window_set THEN "expired"
                                           ELSE "off"]
       IN
       /\ live_mode_until' = live.until
       /\ IF ~(need_display_update \/ need_mqtt_send)
          THEN /\ tick' = head
               /\ rpc' = "loop"
               /\ UNCHANGED <<readings_to_skip, cached_reading, cached_reading_time,
                              last_display_update, last_mqtt_send, screen, good,
                              connected, status_topic, raised>>
          ELSE IF ~connected
          THEN \E raises \in BOOLEAN :
               IF after_reconnect(raises) = "continue"
               THEN /\ tick' = [head EXCEPT !.reconnects = 1]
                    /\ rpc' = "loop"
                    /\ UNCHANGED <<readings_to_skip, cached_reading,
                                   cached_reading_time, last_display_update,
                                   last_mqtt_send, screen, good,
                                   connected, status_topic, raised>>
               ELSE /\ raised' = TRUE
                    /\ Finally
                    /\ UNCHANGED <<readings_to_skip, cached_reading,
                                   cached_reading_time, screen>>
          ELSE \E raw \in Readings \cup {NoReading} :
               LET r == sensor_read(initialized, readings_to_skip, raw)
                   reading == r.value
                   dd == get_display_data(reading, cached_reading, cached_reading_time, now)
                   data == telemetry_data(reading, dd.data)
                   sent == IF need_mqtt_send /\ data # NoReading
                           THEN send_telemetry(data, raw)
                           ELSE [payload |-> NoReading, reads |-> 0]
               IN
               /\ readings_to_skip' = r.skip
               /\ IF need_display_update
                  THEN /\ cached_reading' = dd.cache
                       /\ cached_reading_time' = dd.time
                       /\ screen' = IF dd.data # NoReading
                                    THEN update_display(display_enabled, dd.data, screen)
                                    ELSE IF display_enabled THEN SensorError ELSE screen
                       /\ last_display_update' = now
                  ELSE UNCHANGED <<cached_reading, cached_reading_time, screen,
                                   last_display_update>>
               /\ last_mqtt_send' = IF need_mqtt_send /\ data # NoReading
                                    THEN now ELSE last_mqtt_send
               /\ good' = IF reading # NoReading
                          THEN [reading |-> reading, time |-> now] ELSE good
               /\ tick' = [head EXCEPT !.reads = 1 + sent.reads,
                                       !.reading = reading,
                                       !.shown = IF ~need_display_update THEN "none"
                                                 ELSE IF dd.data # NoReading THEN dd.data
                                                 ELSE SensorError,
                                       !.published = sent.payload]
               /\ rpc' = "loop"
               /\ UNCHANGED <<connected, status_topic, raised>>
    /\ UNCHANGED <<disk, loaderSide, health_check_mode, exit_code, now, initialized,
                   attempts, running, force_update_requested, display_enabled,
                   send_interval, checks, stopped_by>>

\* run() 702-750: one turn of the while loop
PollTick ==
    /\ rpc = "loop"
    /\ running
    /\ Turn(is_live_mode_active(live_mode_until, now), live_mode_until # 0)

\* _is_live_mode_active() 654-656, called by run() 707: the turn finds a
\* window and the clock past its end. The callbacks of the network thread run
\* between this step and the next.
TickFindsExpired ==
    /\ rpc = "loop"
    /\ running
    /\ live_mode_until # 0
    /\ now > live_mode_until
    /\ rpc' = "expire"
    /\ UNCHANGED <<disk, loaderSide, health_check_mode, exit_code, now, initialized,
                   readings_to_skip, attempts, clientVars, checks>>

\* _is_live_mode_active() 657-660: self._live_mode_until = 0; return False;
\* and the rest of the turn
TickClearsWindow ==
    /\ rpc = "expire"
    /\ Turn([active |-> FALSE, until |-> 0], TRUE)

\* run() 704-741 with _update_display 617: a turn of the loop that takes the
\* display path, up to the test of _display_enabled that guards display.show
\* (617) or show_status("SENSOR ERROR") (740); what it is about to render is
\* held in tick.shown. The callbacks of the network thread run between this
\* step and the next.
TickReachesDisplay ==
    /\ rpc = "loop"
    /\ running
    /\ connected
    /\ LET live == is_live_mode_active(live_mode_until, now)
           mqtt_interval == IF live.active THEN LIVE_MODE_INTERVAL ELSE send_interval
           need_display_update ==
               display_enabled /\ now - last_display_update >= DISPLAY_INTERVAL
           need_mqtt_send == now - last_mqtt_send >= mqtt_interval
           head == [NoTick EXCEPT !.display = need_display_update,
                                  !.mqtt = need_mqtt_send,
                                  !.connected = connected,
                                  !.live = IF live.active THEN "active"
                                           ELSE IF live_mode_until # 0 THEN "expired"
                                           ELSE "off"]
       IN
       /\ need_display_update
       /\ live_mode_until' = live.until
       /\ \E raw \in Readings \cup {NoReading} :
           LET r == sensor_read(initialized, readings_to_skip, raw)
               reading == r.value
               dd == get_display_data(reading, cached_reading, cached_reading_time, now)
           IN
           /\ readings_to_skip' = r.skip
           /\ cached_reading' = dd.cache
           /\ cached_reading_time' = dd.time
           /\ good' = IF reading # NoReading
                      THEN [reading |-> reading, time |-> now] ELSE good
           /\ tick' = [head EXCEPT !.reads = 1,
                                   !.reading = reading,
                                   !.shown = IF dd.data # NoReading THEN dd.data
                                             ELSE SensorError]
    /\ rpc' = "show"
    /\ UNCHANGED <<disk, loaderSide, health_check_mode, exit_code, now, initialized,
                   attempts, connected, running, force_update_requested, display_enabled,
                   send_interval, last_display_update, last_mqtt_send, screen,
                   status_topic, raised, checks, stopped_by>>

\* display.show (619) or display.show_status (741) after the test passed, and
\* the rest of the turn, run() 742-750
TickShows ==
    /\ rpc = "show"
    /\ LET data == telemetry_data(tick.reading, tick.shown)
           sent == IF tick.mqtt /\ data # NoReading
                   THEN send_telemetry(data, tick.reading)
                   ELSE [payload |-> NoReading, reads |-> 0]
       IN
       /\ screen' = tick.shown
       /\ last_display_update' = now
       /\ last_mqtt_send' = IF tick.mqtt /\ data # NoReading THEN now ELSE last_mqtt_send
       /\ tick' = [tick EXCEPT !.reads = 1 + sent.reads, !.published = sent.payload]
    /\ rpc' = "loop"
    /\ UNCHANGED <<disk, loaderSide, health_check_mode, exit_code, now, initialized,
                   readings_to_skip, attempts, connected, running, force_update_requested,
                   display_enabled, send_interval, live_mode_until, cached_reading,
                   cached_reading_time, good, status_topic, raised, checks, stopped_by>>

\* time.sleep(0.5) at the end of the turns: the clock moves on
ClockAdvances ==
    /\ rpc = "loop"
    /\ now + ClockStep <= MaxTime
    /\ now' = now + ClockStep
    /\ UNCHANGED <<disk, loaderSide, rpc, health_check_mode, exit_code, initialized,
                   readings_to_skip, attempts, clientVars, checks>>

\* What clears the running flag, remembered the first time.
Stops(cause) ==
    /\ running' = FALSE
    /\ stopped_by' = IF stopped_by = "none" THEN cause ELSE stopped_by

\* json.dump(self.config) into CONFIG_FILE, exceptions swallowed: the file is
\* written, or open raises, or the file is truncated and the dump raises
SaveConfig(d, si, de) ==
    {[d EXCEPT ![CONFIG_FILE] = SavedConfig(si, de)],
     d,
     [d EXCEPT ![CONFIG_FILE] = Partial]}

\* _on_message -> _execute_command 490-492: restart
CommandRestart ==
    /\ NetworkThreadRuns
    /\ Stops("restart")
    /\ UNCHANGED <<disk, loaderSide, rpc, health_check_mode, exit_code, now, initialized,
                   readings_to_skip, attempts, connected, force_update_requested,
                   display_enabled, send_interval, live_mode_until, cached_reading,
                   cached_reading_time, last_display_update, last_mqtt_send, screen,
                   status_topic, raised, tick, good, checks>>

\* _execute_command 494-497: force_update
CommandForceUpdate ==
    /\ NetworkThreadRuns
    /\ force_update_requested' = TRUE
    /\ Stops("force_update")
    /\ UNCHANGED <<disk, loaderSide, rpc, health_check_mode, exit_code, now, initialized,
                   readings_to_skip, attempts, connected,
                   display_enabled, send_interval, live_mode_until, cached_reading,
                   cached_reading_time, last_display_update, last_mqtt_send, screen,
                   status_topic, raised, tick, good, checks>>

\* main() 879-884: SIGINT or SIGTERM -> client.stop()
Signal ==
    /\ rpc = "loop"
    /\ Stops("signal")
    /\ UNCHANGED <<disk, loaderSide, rpc, health_check_mode, exit_code, now, initialized,
                   readings_to_skip, attempts, connected, force_update_requested,
                   display_enabled, send_interval, live_mode_until, cached_reading,
                   cached_reading_time, last_display_update, last_mqtt_send, screen,
                   status_topic, raised, tick, good, checks>>

\* _execute_command 499-501: status -> _send_telemetry(), which reads the sensor
CommandStatus ==
    /\ NetworkThreadRuns
    /\ \E raw \in Readings \cup {NoReading} :
        readings_to_skip' = sensor_read(initialized, readings_to_skip, raw).skip
    /\ UNCHANGED <<disk, loaderSide, rpc, health_check_mode, exit_code, now, initialized,
                   attempts, clientVars, checks>>

\* _execute_command 503-507: live_mode
CommandLiveMode(has_duration) ==
    /\ NetworkThreadRuns
    /\ \E duration \in 0..MaxDuration :
        /\ ~has_duration => duration = 0
        /\ live_mode_until' = live_mode_window(has_duration, duration, now)
    /\ UNCHANGED <<disk, loaderSide, rpc, health_check_mode, exit_code, now, initialized,
                   readings_to_skip, attempts, connected, running, force_update_requested,
                   display_enabled, send_interval, cached_reading,
                   cached_reading_time, last_display_update, last_mqtt_send, screen,
                   status_topic, raised, tick, good, checks, stopped_by>>

\* _execute_command 509-512: live_mode_off
CommandLiveModeOff ==
    /\ NetworkThreadRuns
    /\ live_mode_until' = 0
    /\ UNCHANGED <<disk, loaderSide, rpc, health_check_mode, exit_code, now, initialized,
                   readings_to_skip, attempts, connected, running, force_update_requested,
                   display_enabled, send_interval, cached_reading,
                   cached_reading_time, last_display_update, last_mqtt_send, screen,
                   status_topic, raised, tick, good, checks, stopped_by>>

\* A variant of display_after_command for comparison: display_off leaves the
\* display as it is.
display_after_commandKeeps(enabled, shown) == shown

\* _execute_command 529-530: display_off clears the display; display_on does not touch it
display_after_command(enabled, shown) == IF enabled THEN shown ELSE Blank

\* _execute_command 514-536: display_on / display_off
CommandDisplay ==
    /\ NetworkThreadRuns
    /\ \E enabled \in BOOLEAN :
        /\ display_enabled' = enabled
        /\ screen' = display_after_command(enabled, screen)
        /\ disk' \in SaveConfig(disk, send_interval, enabled)
    /\ UNCHANGED <<loaderSide, rpc, health_check_mode, exit_code, now, initialized,
                   readings_to_skip, attempts, connected, running, force_update_requested,
                   send_interval, live_mode_until, cached_reading,
                   cached_reading_time, last_display_update, last_mqtt_send,
                   status_topic, raised, tick, good, checks, stopped_by>>

\* _on_message 450-451 -> _apply_config 459-484: a payload on the config topic
ApplyConfig(payload) ==
    /\ NetworkThreadRuns
    /\ LET applied == apply_config([send_interval |-> send_interval,
                                     display_enabled |-> display_enabled,
                                     mqtt_broker |-> mqtt_broker], payload)
       IN
       /\ send_interval' = applied.config.send_interval
       /\ display_enabled' = applied.config.display_enabled
       /\ mqtt_broker' = applied.config.mqtt_broker
       /\ screen' = IF "display_enabled" \in payload.fields
                     THEN display_after_command(applied.config.display_enabled, screen)
                     ELSE screen
       /\ IF applied.changed
          THEN disk' \in SaveConfig(disk, applied.config.send_interval,
                                    applied.config.display_enabled)
          ELSE disk' = disk
    /\ UNCHANGED <<restarts, loaderVars, historyVars, schedulerVars, publisherVars,
                   sensorVars, rpc, health_check_mode, exit_code,
                   now, initialized, readings_to_skip, attempts, connected, running,
                   force_update_requested, live_mode_until, cached_reading,
                   cached_reading_time, last_display_update, last_mqtt_send,
                   status_topic, raised, tick, good, checks, stopped_by>>

OnConfigMessage == \E payload \in ConfigPayloads : ApplyConfig(payload)

\* _on_disconnect: the connection to the broker is lost
OnDisconnect ==
    /\ rpc = "loop"
    /\ connected
    /\ connected' = FALSE
    /\ UNCHANGED <<disk, loaderSide, rpc, health_check_mode, exit_code, now, initialized,
                   readings_to_skip, attempts, running, force_update_requested,
                   display_enabled, send_interval, live_mode_until, cached_reading,
                   cached_reading_time, last_display_update, last_mqtt_send, screen,
                   status_topic, raised, tick, good, checks, stopped_by>>

\* _on_connect with reason_code 0, after client.reconnect()
OnConnect ==
    /\ rpc = "loop"
    /\ ~connected
    /\ connected' = TRUE
    /\ status_topic' = "online"
    /\ UNCHANGED <<disk, loaderSide, rpc, health_check_mode, exit_code, now, initialized,
                   readings_to_skip, attempts, running, force_update_requested,
                   display_enabled, send_interval, live_mode_until, cached_reading,
                   cached_reading_time, last_display_update, last_mqtt_send, screen,
                   raised, tick, good, checks, stopped_by>>

\* run() 703, 753-760: the while condition is found false; finally; return
\* self._force_update_requested
LoopExit ==
    /\ rpc = "loop"
    /\ ~running
    /\ Finally
    /\ UNCHANGED <<disk, loaderSide, health_check_mode, exit_code, now, initialized,
                   readings_to_skip, attempts, running, force_update_requested,
                   display_enabled, send_interval, live_mode_until, cached_reading,
                   cached_reading_time, screen, raised, checks, stopped_by>>

\* run() 702-760: an exception other than KeyboardInterrupt leaves the loop
\* body; finally; the exception goes on to main()
LoopRaises ==
    /\ rpc = "loop"
    /\ running
    /\ raised' = TRUE
    /\ Finally
    /\ UNCHANGED <<disk, loaderSide, health_check_mode, exit_code, now, initialized,
                   readings_to_skip, attempts, running, force_update_requested,
                   display_enabled, send_interval, live_mode_until, cached_reading,
                   cached_reading_time, screen, checks, stopped_by>>

\* main() 887-900: the exception of run() ends the process with code 1; else
\* sensor.stop(), display.clear(), and exit 100 (version.json unlinked) or 0.
\* The memory of the process is gone with it.
MainExit ==
    /\ rpc = "returned"
    /\ IF raised
       THEN /\ exit_code' = 1
            /\ UNCHANGED <<disk, screen>>
       ELSE /\ exit_code' = exit_code_of(force_update_requested)
            /\ disk' = runtime_exit(disk, exit_code_of(force_update_requested))
            /\ screen' = Blank
    /\ rpc' = "exited"
    /\ live_mode_until' = 0
    /\ cached_reading' = NoReading
    /\ cached_reading_time' = 0
    /\ UNCHANGED <<loaderSide, health_check_mode, now, initialized,
                   readings_to_skip, attempts, connected, running, force_update_requested,
                   display_enabled, send_interval, last_display_update, last_mqtt_send,
                   status_topic, raised, tick, good, checks, stopped_by>>

\* The runtime started by the loader on an installed device, in either mode.
InitRuntime ==
    /\ disk = InstalledDisk(<<2025, 1, 1>>)
    /\ restarts = 0
    /\ LoaderStart
    /\ HistoryStart
    /\ health_check_mode \in BOOLEAN
    /\ RuntimeStart
    /\ ServerIdle

NextRuntime ==
    \/ Main
    \/ HcSensorInit
    \/ HcRead
    \/ HcMqtt
    \/ HcWriteMarker
    \/ HcExit
    \/ Connect
    \/ RunStart
    \/ PollTick
    \/ CommandRestart
    \/ CommandForceUpdate
    \/ Signal
    \/ CommandStatus
    \/ CommandLiveMode(TRUE)
    \/ CommandLiveModeOff
    \/ CommandDisplay
    \/ OnDisconnect
    \/ OnConnect
    \/ LoopExit
    \/ LoopRaises
    \/ MainExit

\* The life of the runtime process, from main() to its exit, with the
\* commands, signals and failures that end it; the turns of the poll loop are
\* those of one reading of the clock.
SpecRuntime == InitRuntime /\ [][NextRuntime]_vars

\* The poll loop for as long as it runs: the clock moves, the sensor, the
\* broker connection and the commands that change the cadences come and go.
InitPoll == InitRuntime /\ ~health_check_mode

NextPoll ==
    \/ Main
    \/ Connect
    \/ RunStart
    \/ PollTick
    \/ ClockAdvances
    \/ CommandStatus
    \/ CommandLiveMode(TRUE)
    \/ CommandLiveModeOff
    \/ CommandDisplay
    \/ OnDisconnect
    \/ OnConnect

SpecPoll == InitPoll /\ [][NextPoll]_vars

\* The loop and the live-mode commands, with and without a duration.
OnLiveModeCommand == \E has_duration \in BOOLEAN : CommandLiveMode(has_duration)

NextLive ==
    \/ Main
    \/ Connect
    \/ RunStart
    \/ PollTick
    \/ ClockAdvances
    \/ OnLiveModeCommand
    \/ CommandLiveModeOff

SpecLive == InitPoll /\ [][NextLive]_vars

\* The two threads of the running client around the live-mode window: the
\* turns of the poll loop, whole or with the network thread's callbacks
\* arriving between the test of the window's end and its reset.
NextLiveExpiry ==
    \/ Main
    \/ Connect
    \/ RunStart
    \/ PollTick
    \/ TickFindsExpired
    \/ TickClearsWindow
    \/ ClockAdvances
    \/ CommandLiveMode(TRUE)
    \/ CommandLiveModeOff

SpecLiveExpiry == InitPoll /\ [][NextLiveExpiry]_vars

\* The running client and what reaches it on the config topic, between the
\* display commands and the turns of the loop of one reading of the clock.
NextConfig ==
    \/ Main
    \/ Connect
    \/ RunStart
    \/ PollTick
    \/ CommandDisplay
    \/ OnConfigMessage
    \/ OnDisconnect
    \/ OnConnect

SpecConfig == InitPoll /\ [][NextConfig]_vars

\* The two threads of the running client around the display: the turns of the
\* poll loop, whole or with the network thread's callbacks arriving between
\* the test of _display_enabled and the rendering it guards.
NextDisplay ==
    \/ Main
    \/ Connect
    \/ RunStart
    \/ PollTick
    \/ TickReachesDisplay
    \/ TickShows
    \/ ClockAdvances
    \/ CommandDisplay
    \/ OnConfigMessage

SpecDisplay == InitPoll /\ [][NextDisplay]_vars

(***************************************************************************)
(* The sensor object: init(), read() and the calibrate command.            *)
(***************************************************************************)
sensorSide == <<disk, restarts, loaderVars, historyVars, mqtt_broker, schedulerVars,
                publisherVars, rpc, health_check_mode, exit_code, now, attempts,
                clientVars, checks>>

\* SCD41Sensor.init() 148-178: the driver is set up and the periodic
\* measurement started, or an exception leaves the sensor uninitialised
SensorInit ==
    /\ ~initialized
    /\ \E ok \in BOOLEAN :
        /\ initialized' = ok
        /\ measuring' = ok
    /\ UNCHANGED <<sensorSide, readings_to_skip, last_read, calibration>>

\* A calibrate command is being executed by the network thread, and how many
\* of its driver calls were made.
CalibrationInProgress == calibration # NoCalibration /\ ~calibration.done
CalibrationPaused == CalibrationInProgress /\ calibration.made >= 1

\* SCD41Sensor.read() on what the driver holds, as run() 731 and
\* _send_telemetry 625 (status command) call it
SensorRead ==
    /\ \E m \in Measurements :
        LET out == read(initialized, readings_to_skip, m)
        IN
        /\ readings_to_skip' = out.skip
        /\ last_read' = [init |-> initialized, skip |-> readings_to_skip,
                         measurement |-> m, value |-> out.value,
                         raised |-> out.raised, paused |-> CalibrationPaused,
                         done |-> TRUE]
    /\ UNCHANGED <<sensorSide, initialized, measuring, calibration>>

\* _execute_command 538-541 -> _perform_calibration 543-584: a calibrate
\* command, with or without a target
CommandCalibrate ==
    /\ \E given \in BOOLEAN, display_on \in BOOLEAN, restart_ok \in BOOLEAN,
          fails_at \in {"none"} \cup {CalibrationSteps[i] : i \in 1..Len(CalibrationSteps)} :
        LET target_co2 == IF given THEN CustomTarget ELSE DEFAULT_TARGET_CO2
            out == perform_calibration(initialized, target_co2, display_on, fails_at,
                                       restart_ok)
        IN
        /\ (fails_at = "show_status") => display_on
        /\ calibration' = [init |-> initialized, given |-> given, target_co2 |-> target_co2,
                           fails_at |-> fails_at, calls |-> out.calls, log |-> out.log,
                           done |-> TRUE]
        /\ measuring' = measuring_after(measuring, out.calls)
    /\ UNCHANGED <<sensorSide, initialized, readings_to_skip, last_read>>

\* _execute_command 538-541 and _perform_calibration 551-556: the network
\* thread takes a calibrate command; the driver calls it is going to make
\* are those of perform_calibration, none made yet
CalibrateBegins ==
    /\ ~CalibrationInProgress
    /\ \E given \in BOOLEAN, display_on \in BOOLEAN, restart_ok \in BOOLEAN,
          fails_at \in {"none"} \cup {CalibrationSteps[i] : i \in 1..Len(CalibrationSteps)} :
        LET target_co2 == IF given THEN CustomTarget ELSE DEFAULT_TARGET_CO2
            out == perform_calibration(initialized, target_co2, display_on, fails_at,
                                       restart_ok)
        IN
        /\ (fails_at = "show_status") => display_on
        /\ calibration' = [init |-> initialized, given |-> given, target_co2 |-> target_co2,
                           fails_at |-> fails_at, calls |-> out.calls, log |-> out.log,
                           made |-> 0, done |-> FALSE]
    /\ UNCHANGED <<sensorSide, initialized, readings_to_skip, measuring, last_read>>

\* _perform_calibration 559-574, 582: its next driver call; the sleeps that
\* follow the calls (0.5 s after stop, 5 s after start) pass before the next
\* step of the network thread
CalibrateCalls ==
    /\ CalibrationInProgress
    /\ calibration.made < Len(calibration.calls)
    /\ calibration' = [calibration EXCEPT !.made = @ + 1]
    /\ measuring' = measuring_after(measuring,
                                    <<calibration.calls[calibration.made + 1]>>)
    /\ UNCHANGED <<sensorSide, initialized, readings_to_skip, last_read>>

\* _perform_calibration 553, 576, 584: the callback returns, after the wait
\* for the first measurement when the restart succeeded
CalibrateReturns ==
    /\ CalibrationInProgress
    /\ calibration.made = Len(calibration.calls)
    /\ calibration' = [init |-> calibration.init, given |-> calibration.given,
                       target_co2 |-> calibration.target_co2,
                       fails_at |-> calibration.fails_at, calls |-> calibration.calls,
                       log |-> calibration.log, done |-> TRUE]
    /\ UNCHANGED <<sensorSide, initialized, readings_to_skip, measuring, last_read>>

\* A sensor object as main() creates it.
InitSensor ==
    /\ disk = InstalledDisk(<<2025, 1, 1>>)
    /\ restarts = 0
    /\ LoaderStart
    /\ HistoryStart
    /\ health_check_mode = FALSE
    /\ RuntimeStart
    /\ ServerIdle

NextSensor ==
    \/ SensorInit
    \/ SensorRead
    \/ CommandCalibrate

SpecSensor == InitSensor /\ [][NextSensor]_vars

\* The sensor shared by the two threads: the reads of the poll loop between
\* the driver calls of a calibration running on the network thread.
NextCalibration ==
    \/ SensorInit
    \/ SensorRead
    \/ CalibrateBegins
    \/ CalibrateCalls
    \/ CalibrateReturns

SpecCalibration == InitSensor /\ [][NextCalibration]_vars

(***************************************************************************)
(* ReportScheduler: the loop of start() and the check of one user.         *)
(***************************************************************************)
deviceVars == <<disk, restarts, loaderVars, historyVars, runtimeVars, mqtt_broker,
                sensorVars>>
schedulerSide == <<deviceVars, publisherVars>>

\* What firing a report of a type to a user adds to the history.
Fired(u, type, local) == [user |-> u, type |-> type, date |-> local.date, time |-> local.time]
AlreadyFired(u, type, local) ==
    \E r \in reports : r.user = u /\ r.type = type /\ r.date = local.date

\* A send of the report of a type to a user returned on that local date.
SentOn(u, type, date) ==
    LET last == IF type = "morning" THEN last_morning_check[u] ELSE last_evening_check[u]
    IN last # NeverSent /\ (last.utc + UtcOffset[u]) \div MinutesPerDay = date

\* _check_and_send_reports 60-64 -> _check_user_reports 66-99, for the next
\* user of the list: the morning report, then the evening report; a send
\* that raises leaves _check_user_reports at once and is logged by the caller.
CheckUserReports ==
    /\ next_user <= Len(UserOrder)
    /\ \E morning_send \in {"sent", "raised"}, evening_send \in {"sent", "raised"} :
        LET u == UserOrder[next_user]
            local == now_local(utc, UtcOffset[u])
            morning == /\ users[u].morning_report_enabled
                       /\ should_send_report(users[u].morning_report_time, local.time,
                                             local.date, last_morning_check[u])
            evening_checked == ~(morning /\ morning_send = "raised")
            evening == /\ evening_checked
                       /\ users[u].evening_report_enabled
                       /\ should_send_report(users[u].evening_report_time, local.time,
                                             local.date, last_evening_check[u])
            fired == (IF morning THEN {"morning"} ELSE {})
                         \cup (IF evening THEN {"evening"} ELSE {})
        IN
        /\ last_morning_check' =
               IF morning /\ morning_send = "sent"
               THEN [last_morning_check EXCEPT ![u] = local] ELSE last_morning_check
        /\ last_evening_check' =
               IF evening /\ evening_send = "sent"
               THEN [last_evening_check EXCEPT ![u] = local] ELSE last_evening_check
        /\ reports' = reports \cup {Fired(u, type, local) : type \in fired}
        /\ repeats' = repeats \cup
               {Fired(u, type, local) : type \in {t \in fired : AlreadyFired(u, t, local)}}
        /\ resent' = resent \cup
               {Fired(u, type, local) :
                    type \in {t \in fired : SentOn(u, t, local.date)}}
    /\ next_user' = next_user + 1
    /\ UNCHANGED <<schedulerSide, utc, users>>

\* start() 39-46: every user was checked; asyncio.sleep(60), after which the
\* clock shows the next minute, or the one after when the checks took long
SchedulerSleeps ==
    /\ next_user > Len(UserOrder)
    /\ \E minutes \in 1..2 :
        /\ utc + minutes <= StartUtc + MaxTicks
        /\ utc' = utc + minutes
    /\ next_user' = 1
    /\ UNCHANGED <<schedulerSide, users, last_morning_check, last_evening_check,
                   reports, repeats, resent>>

\* A scheduler process started shortly before midnight UTC, with two users
\* in different time zones whose report times lie around the watch.
InitScheduler ==
    /\ disk = InstalledDisk(<<2025, 1, 1>>)
    /\ restarts = 0
    /\ LoaderStart
    /\ HistoryStart
    /\ health_check_mode = FALSE
    /\ RuntimeStart
    /\ users \in [UserIds -> {UserRow(me, mt, ee, et) :
                                 me \in BOOLEAN, mt \in AllReportTimes,
                                 ee \in BOOLEAN, et \in AllReportTimes}]
    /\ \A u \in UserIds :
           /\ users[u].morning_report_time \in ReportTimes(u)
           /\ users[u].evening_report_time \in ReportTimes(u)
           /\ users[u].morning_report_enabled
    /\ SchedulerStart
    /\ PublisherStart

NextScheduler ==
    \/ CheckUserReports
    \/ SchedulerSleeps

SpecScheduler == InitScheduler /\ [][NextScheduler]_vars

\* start() 39-46 when the checks take no time: asyncio.sleep(60) ends in the
\* next minute, so that the loop ticks once in every minute.
SchedulerTicks ==
    /\ SchedulerSleeps
    /\ utc' = utc + 1

NextMinuteTicks ==
    \/ CheckUserReports
    \/ SchedulerTicks

SpecMinuteTicks == InitScheduler /\ [][NextMinuteTicks]_vars

(***************************************************************************)
(* The server publishes a command to a device.                             *)
(***************************************************************************)
\* A call of publish_device_command from the bot or the API
PublishCommand ==
    /\ \E device_uid \in DeviceUids, command \in CommandNames,
          params \in SUBSET KeywordArgs, client \in GlobalClients,
          temp \in TempConnections, rc \in PublishRcs :
        LET out == publish_device_command(device_uid, command, params, client, temp, rc)
        IN
        /\ call' = [device_uid |-> device_uid, command |-> command, params |-> params,
                    client |-> client, temp |-> temp, rc |-> rc,
                    result |-> out.result]
        /\ broker_calls' = out.calls
    /\ UNCHANGED <<deviceVars, schedulerVars>>

InitPublisher ==
    /\ disk = InstalledDisk(<<2025, 1, 1>>)
    /\ restarts = 0
    /\ LoaderStart
    /\ HistoryStart
    /\ health_check_mode = FALSE
    /\ RuntimeStart
    /\ ServerIdle

NextPublisher == PublishCommand

SpecPublisher == InitPublisher /\ [][NextPublisher]_vars

(***************************************************************************)
(* Properties.                                                             *)
(***************************************************************************)
Managed == {MAIN_SCRIPT, CONFIG_FILE, VERSION_FILE}
DownloadPcs == {"dl_fetch", "dl_backoff", "dl_open", "dl_write", "dl_rename"}
\* The positions of an update attempt after the BACKUP step.
PastBackup ==
    DownloadPcs \cup {"verify_hash", "save_version", "install_dependencies_new",
                      "health_check", "health_poll", "rollback"}
\* The update part of the cycle is over; RUN_MAIN_PROCESS is next.
CycleEnd == pc \in {"install_dependencies", "run_main_script"}

\* Date a is later than date b, read off the year, month and day.
DateAfter(a, b) ==
    \/ a[1] > b[1]
    \/ a[1] = b[1] /\ a[2] > b[2]
    \/ a[1] = b[1] /\ a[2] = b[2] /\ a[3] > b[3]

\* The version record that mirrors manifest m.
RecordOf(m) == VersionFile(m.version, m.date, m.hash)

\* C1 (as claimed): after a cycle whose health check failed, the script, the
\* config and the version record are what they were before the update, and the
\* version record is not that of the attempted update.  Stated for the cycles
\* in which the script was installed before, create_backup raised nothing and
\* rollback reported success.
RollbackCorrectness ==
    (/\ CycleEnd
     /\ hcResult = "fail"
     /\ pre[MAIN_SCRIPT].kind = "script"
     /\ ~backupFault
     /\ rollbackResult = "ok")
    => /\ \A f \in Managed : disk[f] = pre[f]
       /\ disk[VERSION_FILE] # RecordOf(manifest)

\* C2 (as claimed): after download_update rejected the artifact for its hash,
\* the script installed before is still at the main-script path when
\* RUN_MAIN_PROCESS is reached.
HashMismatchKeepsScript ==
    (CycleEnd /\ dlResult = "hash_mismatch" /\ pre[MAIN_SCRIPT].kind = "script")
    => disk[MAIN_SCRIPT] = pre[MAIN_SCRIPT]

\* C3 (as claimed): when both sides report a hash, the hashes alone decide:
\* an update is triggered exactly when they differ.
HashesAloneDecide ==
    (decision \in {"update", "uptodate"} /\ local_version.hash # "" /\ manifest.hash # "")
    => (decision = "update" <=> local_version.hash # manifest.hash)

\* C3 (amended): when both sides report a hash, differing hashes trigger an
\* update whatever the dates, and equal hashes trigger an update exactly when
\* the server's date is later than the local date.
HashThenDate ==
    (decision \in {"update", "uptodate"} /\ local_version.hash # "" /\ manifest.hash # "")
    => (decision = "update" <=> \/ local_version.hash # manifest.hash
                                \/ DateAfter(manifest.date, local_version.date))

\* C3 witness: equal hashes, a later server date, and the update is triggered.
HashThenDateWitness ==
    /\ decision = "update"
    /\ local_version.hash # ""
    /\ local_version.hash = manifest.hash
    /\ DateAfter(manifest.date, local_version.date)

\* C4 (as claimed): during an update attempt, version.json holds the record of
\* the new manifest only if the health check for it has passed.
VersionOnlyAfterPass ==
    (decision = "update" /\ disk[VERSION_FILE] = RecordOf(manifest))
    => hcResult = "pass"

\* C5 (as claimed): no update attempt is past the BACKUP step unless
\* create_backup produced a snapshot without raising.  Stated for the attempts
\* that start with the script installed.
BackupPrecondition ==
    (pc \in PastBackup /\ pre[MAIN_SCRIPT].kind = "script") => ~backupFault

\* C6: while download_file runs, its destination keeps what it held or
\* receives, by the rename, the complete bytes that were fetched; no file
\* other than the temporary one becomes a partially written file.
AtomicDownload ==
    [][(pc \in DownloadPcs =>
         /\ disk'[dest] # Partial
         /\ \/ disk'[dest] = disk[dest]
            \/ pc = "dl_rename" /\ disk'[dest] = content /\ content \in ServerContent(dest)
         /\ \A p \in Paths \ {TempPath(dest)} : disk'[p] = Partial => disk[p] = Partial)]_vars

\* C6 witness: a write to the temporary file failed part-way and the download
\* is being retried; the installed script is still in place.
AtomicDownloadWitness ==
    /\ pc = "dl_fetch"
    /\ dest = MAIN_SCRIPT
    /\ attempt > 0
    /\ disk["main.tmp"] = Partial
    /\ disk[MAIN_SCRIPT] = Script("sA")

\* C7: after the main process exited with code 100, version.json is gone when
\* the loader is at CHECK_LOCAL_VERSION, which therefore reads the default
\* record; with a manifest from the server the cycle never concludes "up to
\* date": it takes the BACKUP step and downloads, and a download that is
\* accepted is followed by the health check.
ForceUpdateLoop ==
    returncode = FORCE_UPDATE_CODE =>
        /\ pc \in {"main_exited", "check_local_version"} => ~Exists(disk, VERSION_FILE)
        /\ pc = "query_server" => local_version = DefaultVersion
        /\ (decision # "none" /\ manifest # NoManifest) => decision = "update"
        /\ (CycleEnd /\ manifest # NoManifest) =>
              /\ pre # NoSnapshot
              /\ dlResult # "none"
              /\ dlResult = "ok" => hcResult # "none"

\* C7 witness: the cycle restarted by exit code 100 is in its health check.
ForceUpdateLoopWitness ==
    returncode = FORCE_UPDATE_CODE /\ pc = "health_poll" /\ restarts > 0

\* C8: from a crash of the main process to its respawn the loader only waits
\* and runs the same script again: the disk, the manifest and the local
\* version are left alone.  (A step to CHECK_LOCAL_VERSION that clears the
\* return code is a restart of the loader by the system, not a loader step.)
CrashSupervision ==
    [][((/\ pc \in {"main_exited", "cooldown"}
        /\ returncode \notin {0, FORCE_UPDATE_CODE}
        /\ ~(pc' = "check_local_version" /\ returncode' = NotExited))
       => /\ disk' = disk
          /\ manifest' = manifest
          /\ local_version' = local_version
          /\ pc' = IF pc = "main_exited" THEN "cooldown" ELSE "main_running")]_vars

\* C8 witness: the main process crashed and the loader is in its cooldown.
CrashSupervisionWitness ==
    pc = "cooldown" /\ returncode = 1

\* C9 (as claimed): the loader has stopped only if the main process it
\* supervised exited with code 0.
StopsOnlyAfterExitZero ==
    pc = "stopped" => returncode = 0

UpToDateIdempotent ==
    (/\ decision # "none"
     /\ manifest # NoManifest
     /\ local_version.hash # ""
     /\ local_version.hash = manifest.hash
     /\ local_version.date = manifest.date)
    => /\ ~needs_update(local_version, manifest)
       /\ decision = "uptodate"
       /\ pc \in {"install_dependencies", "run_main_script", "stopped"}
       /\ pre = NoSnapshot
       /\ dlResult = "none"
       /\ hcResult = "none"
       /\ rollbackResult = "none"

\* C11 witness: a cycle that found the manifest identical to the local record
\* is about to run the main process.
UpToDateIdempotentWitness ==
    /\ pc = "run_main_script"
    /\ decision = "uptodate"
    /\ local_version.hash = "hA"
    /\ manifest.hash = "hA"
    /\ local_version.date = manifest.date

\* C12 (as claimed): a rollback that finds no backup directory, or a backup
\* directory without the copy of the script, the config or the version
\* record, reports failure.
RollbackEscalates ==
    (/\ CycleEnd
     /\ rollbackResult # "none"
     /\ \/ ~Exists(disk, BACKUP_DIR)
        \/ \E f \in Managed : ~Exists(disk, BackupPath(f)))
    => rollbackResult = "failed"

\* C13 (as claimed): in self-check mode the marker file is written last, only
\* after the sensor initialisation, the reading and the broker connection all
\* succeeded; a self-check that exits non-zero has written no marker; and the
\* self-check never enters the polling loop.
SelfCheckMarkerLast ==
    health_check_mode =>
        /\ Exists(disk, HEALTH_CHECK_FILE) => {"sensor", "reading", "mqtt"} \subseteq checks
        /\ (rpc = "exited" /\ exit_code # 0) => ~Exists(disk, HEALTH_CHECK_FILE)
        /\ rpc \notin {"connect", "connected", "loop", "returned"}
        /\ tick = NoTick

\* C14: a turn of the loop in which the display or the telemetry is due (and
\* the broker is connected) reads the sensor exactly once, and the display
\* path and the telemetry path both consume that one reading; a turn in which
\* neither is due, or the broker is not connected, reads nothing.
SingleReadPerTick ==
    /\ (~(tick.display \/ tick.mqtt) \/ ~tick.connected) =>
           /\ tick.reads = 0
           /\ tick.shown = "none"
           /\ tick.published = NoReading
    /\ ((tick.display \/ tick.mqtt) /\ tick.connected) =>
           /\ tick.reads = 1
           /\ (tick.display /\ tick.reading # NoReading) => tick.shown = tick.reading
           /\ (tick.mqtt /\ tick.reading # NoReading) => tick.published = tick.reading
           /\ ~tick.display => tick.shown = "none"
           /\ ~tick.mqtt => tick.published = NoReading

SingleReadPerTickWitness ==
    /\ tick.display /\ tick.mqtt /\ tick.connected
    /\ tick.reads = 1
    /\ tick.reading \in Readings
    /\ tick.shown = tick.reading
    /\ tick.published = tick.reading

\* C15: telemetry is published only from the reading of the same turn: when
\* that reading is null nothing is published, even while the display shows a
\* still valid cached reading.
TelemetryOnlyFresh ==
    /\ tick.published \in {NoReading, tick.reading}
    /\ tick.reading = NoReading => tick.published = NoReading
    /\ tick.published # NoReading => tick.mqtt /\ tick.connected

TelemetryOnlyFreshWitness ==
    /\ tick.mqtt /\ tick.display /\ tick.connected
    /\ tick.reading = NoReading
    /\ tick.shown \in Readings
    /\ tick.published = NoReading

\* C16 (as claimed): when the reading of a display turn is null, the display
\* shows the last successful reading if that reading is at most 15 seconds
\* old and the sensor-error screen if it is older, and the telemetry of the
\* turn is not published.
DisplayCacheExpiry ==
    (tick.display /\ tick.connected /\ tick.reading = NoReading
     /\ good.reading # NoReading) =>
        /\ tick.shown = IF last_display_update - good.time <= CACHE_MAX_AGE
                        THEN good.reading ELSE SensorError
        /\ tick.published = NoReading

\* C17: once the clock has passed the end of the live-mode window, the next
\* turn of the loop finds live mode inactive, resets the window to 0 and
\* decides the telemetry cadence with the configured send interval; so does
\* every turn that finds the window at 0.
LiveModeDecay ==
    [][(PollTick /\ (live_mode_until = 0 \/ now > live_mode_until)) =>
           (/\ live_mode_until' = 0
            /\ tick'.live # "active"
            /\ tick'.mqtt <=> (now - last_mqtt_send >= send_interval))]_vars

LiveModeDecayWitness ==
    /\ tick.live = "expired"
    /\ live_mode_until = 0
    /\ tick.display /\ ~tick.mqtt
    /\ last_display_update - last_mqtt_send >= LIVE_MODE_INTERVAL
    /\ last_display_update - last_mqtt_send < send_interval

\* C18 (as claimed): a loop stopped by a restart command or by a signal ends
\* the runtime with exit code 0; a loop stopped by a force_update command ends
\* it with exit code 100.
StopCauseDecidesExit ==
    (rpc = "exited" /\ ~health_check_mode /\ ~raised) =>
        /\ stopped_by \in {"restart", "signal"} => exit_code = 0
        /\ stopped_by = "force_update" => exit_code = FORCE_UPDATE_CODE

\* C18 (amended): the runtime exits with 100 exactly when a force_update
\* command was received before the loop returned, also when a restart command
\* or a signal had stopped the loop first, and then the local version record
\* is gone; it exits with 0 when the loop stopped and no force_update command
\* was received.
ForceUpdateDecidesExit ==
    (rpc = "exited" /\ ~health_check_mode /\ ~raised /\ stopped_by # "none") =>
        /\ exit_code = IF force_update_requested THEN FORCE_UPDATE_CODE ELSE 0
        /\ stopped_by = "force_update" => force_update_requested
        /\ exit_code = FORCE_UPDATE_CODE => ~Exists(disk, VERSION_FILE)
        /\ exit_code = 0 => Exists(disk, VERSION_FILE)

ForceUpdateDecidesExitWitness ==
    /\ rpc = "exited" /\ ~raised
    /\ stopped_by = "restart"
    /\ force_update_requested
    /\ exit_code = FORCE_UPDATE_CODE

\* C19: whenever the loop ends, by a stop or by an exception, the runtime has
\* published "offline" on its status topic and disconnected before it exits.
OfflineOnLoopEnd ==
    (rpc \in {"returned", "exited"} /\ (stopped_by # "none" \/ raised)) =>
        status_topic = "offline"

OfflineOnLoopEndWitness ==
    /\ rpc = "exited"
    /\ raised
    /\ exit_code = 1
    /\ status_topic = "offline"

\* C20: a display_off command sets the display flag to false in memory,
\* writes it to the configuration file (unless the write fails, which is
\* ignored) and clears the display in the same step; a display_on command
\* sets the flag to true and writes it; neither changes the send interval,
\* the live-mode window or the running flag.
DisplayCommandEffect ==
    [][((CommandDisplay \/ display_enabled' # display_enabled)) =>
           (/\ ~display_enabled' => screen' = Blank
            /\ display_enabled' => screen' = screen
            /\ disk'[CONFIG_FILE] \in {SavedConfig(send_interval, display_enabled'),
                                       disk[CONFIG_FILE], Partial}
            /\ \A f \in DOMAIN disk : f # CONFIG_FILE => disk'[f] = disk[f]
            /\ send_interval' = send_interval
            /\ live_mode_until' = live_mode_until
            /\ running' = running)]_vars

DisplayCommandEffectWitness ==
    /\ rpc = "loop" /\ running
    /\ ~display_enabled
    /\ screen = Blank
    /\ disk[CONFIG_FILE] = SavedConfig(send_interval, FALSE)
    /\ tick.shown = SensorError

\* The live config of the running client.
LiveConfig ==
    [send_interval |-> send_interval, display_enabled |-> display_enabled,
     mqtt_broker |-> mqtt_broker]

\* C21 (as claimed): a config payload is merged key by key: every config
\* field present in the payload, the broker address included, takes the
\* payload's value, every absent field keeps its value, and the merged config
\* is written to the config file.
ConfigMergeAllFields ==
    [][(\A payload \in ConfigPayloads : ApplyConfig(payload) =>
            /\ \A k \in ConfigKeys :
                   LiveConfig'[k] = IF k \in payload.fields THEN payload[k]
                                    ELSE LiveConfig[k]
            /\ disk'[CONFIG_FILE] \in {SavedConfig(send_interval', display_enabled'),
                                       disk[CONFIG_FILE], Partial})]_vars

\* C21 (amended): of a config payload only send_interval and display_enabled
\* are merged: each of the two that is present takes the payload's value, each
\* that is absent keeps its value, the broker address keeps its value whether
\* present or not; the config file is written (unless the write fails, which
\* is ignored) only when one of the two was present; disabling clears the
\* display.
ConfigMergeKnownFields ==
    [][(\A payload \in ConfigPayloads : ApplyConfig(payload) =>
            /\ send_interval' = IF "send_interval" \in payload.fields
                                THEN payload.send_interval ELSE send_interval
            /\ display_enabled' = IF "display_enabled" \in payload.fields
                                  THEN payload.display_enabled ELSE display_enabled
            /\ mqtt_broker' = mqtt_broker
            /\ IF payload.fields \cap {"send_interval", "display_enabled"} # {}
               THEN disk'[CONFIG_FILE] \in
                        {SavedConfig(send_interval', display_enabled'),
                         disk[CONFIG_FILE], Partial}
               ELSE disk' = disk
            /\ ("display_enabled" \in payload.fields /\ ~payload.display_enabled)
                   => screen' = Blank
            /\ UNCHANGED <<live_mode_until, running, connected>>)]_vars

ConfigMergeKnownFieldsWitness ==
    /\ rpc = "loop"
    /\ send_interval = 2 * ClockStep
    /\ display_enabled
    /\ mqtt_broker = DEFAULT_BROKER
    /\ disk[CONFIG_FILE] = SavedConfig(2 * ClockStep, TRUE)
    /\ tick.published \in Readings

\* C22 (as claimed): while the display is enabled, every turn of the loop in
\* which the display interval has elapsed refreshes the display (with the
\* fresh reading, the cached one or the error state), also while the broker
\* connection is down.
DisplayNeverStalled ==
    tick.display => tick.shown \in Readings \cup {SensorError}

\* The window of a report in minutes of the local day.
InReportWindow(r) ==
    LET scheduled == IF r.type = "morning" THEN users[r.user].morning_report_time
                     ELSE users[r.user].evening_report_time
        scheduled_minutes == scheduled.hour * MINUTES_PER_HOUR + scheduled.minute
        fired_minutes == r.time.hour * MINUTES_PER_HOUR + r.time.minute
    IN scheduled_minutes <= fired_minutes /\ fired_minutes < scheduled_minutes + REPORT_WINDOW

PublishCarriesParams ==
    /\ (call.result # "none" /\ call.rc = "MQTT_ERR_SUCCESS"
        /\ (call.client = "connected" \/ call.temp = "connects")) =>
           /\ call.result = "True"
           /\ Len(broker_calls) = 1
           /\ broker_calls[1].topic = CommandTopic(call.device_uid)
           /\ broker_calls[1].payload.command = call.command
           /\ broker_calls[1].payload.params = call.params
    /\ (call.result # "none" /\ call.client # "connected" /\ call.temp # "connects") =>
           /\ call.result = "False"
           /\ broker_calls = <<>>

(***************************************************************************)
(* The sensor: read() and the calibrate command.                           *)
(***************************************************************************)
\* C25: SCD41Sensor.read never propagates a failure. Every call returns
\* without raising, and what it returns is either null or a reading with
\* 0 <= co2 <= 40000, -10 <= temperature <= 60 and 0 <= humidity <= 100
\* (temperature and humidity in tenths); an uninitialised sensor, a driver
\* exception, data that is not ready, a value out of range and each of the
\* first two warm-up readings give null.
ReadNeverRaises ==
    last_read.done =>
        LET m == last_read.measurement
            v == last_read.value
        IN
        /\ ~last_read.raised
        /\ \/ v = Null
           \/ /\ ~v.null
              /\ 0 <= v.co2 /\ v.co2 <= CO2_MAX
              /\ TEMPERATURE_MIN * 10 <= v.temperature /\ v.temperature <= TEMPERATURE_MAX * 10
              /\ 0 <= v.humidity /\ v.humidity <= HUMIDITY_MAX * 10
        /\ ~last_read.init => v = Null
        /\ m.fault # "none" => v = Null
        /\ m.ready = "never" => v = Null
        /\ last_read.skip > 0 => v = Null
        /\ (m.co2 < 0 \/ m.co2 > CO2_MAX * Hundredths) => v = Null
        /\ (m.temperature < TEMPERATURE_MIN * Hundredths
              \/ m.temperature > TEMPERATURE_MAX * Hundredths) => v = Null
        /\ (m.humidity < 0 \/ m.humidity > HUMIDITY_MAX * Hundredths) => v = Null

\* An initialised, warmed-up sensor whose driver raised while the values
\* were read: read() returned null.
ReadNeverRaisesWitness ==
    /\ last_read.done
    /\ last_read.init
    /\ last_read.skip = 0
    /\ last_read.measurement.fault = "none_values"
    /\ last_read.value = Null
    /\ ~last_read.raised

\* C30: a calibrate command on an initialised sensor calls, in order, stop
\* periodic measurement, forced recalibration with the target (420 ppm when
\* the command names none) and start periodic measurement; when a step
\* fails, a start of the periodic measurement is still attempted after it;
\* on an uninitialised sensor the command is logged and makes no driver
\* call at all.
CalibrationRestartsMeasurement ==
    calibration.done =>
        LET calls == calibration.calls
            n == Len(calls)
        IN
        /\ calibration.target_co2 =
              IF calibration.given THEN CustomTarget ELSE DEFAULT_TARGET_CO2
        /\ ~calibration.init =>
              /\ calls = <<>>
              /\ calibration.log = "Calibration failed: sensor not initialized"
        /\ calibration.init =>
              /\ n >= 2
              /\ calls[1].op = "stop_periodic_measurement"
              /\ calls[n].op = "start_periodic_measurement"
              /\ calls[1].ok =>
                    /\ calls[2] = DriverCall("force_calibration", calibration.target_co2,
                                             calibration.fails_at # "force_calibration")
                    /\ n >= 3
              /\ calibration.fails_at # "none" =>
                    LET before == CASE calibration.fails_at = "stop_periodic_measurement" -> 1
                                    [] calibration.fails_at = "force_calibration" -> 2
                                    [] calibration.fails_at = "show_status" -> 2
                                    [] calibration.fails_at = "start_periodic_measurement" -> 3
                    IN /\ n = before + 1
                       /\ calls[n].op = "start_periodic_measurement"
                       /\ \A j \in 1..before :
                             calls[j].op = CalibrationDriverCalls[j]
                       /\ calibration.log = "Calibration error"
              /\ calibration.fails_at = "none" =>
                    /\ calls = <<DriverCall("stop_periodic_measurement", 0, TRUE),
                                 DriverCall("force_calibration", calibration.target_co2, TRUE),
                                 DriverCall("start_periodic_measurement", 0, TRUE)>>
                    /\ measuring

\* The forced recalibration with the default target raised, and the
\* measurement was started again.
CalibrationRestartsMeasurementWitness ==
    /\ calibration.done
    /\ calibration.init
    /\ ~calibration.given
    /\ calibration.fails_at = "force_calibration"
    /\ calibration.calls = <<DriverCall("stop_periodic_measurement", 0, TRUE),
                             DriverCall("force_calibration", DEFAULT_TARGET_CO2, FALSE),
                             DriverCall("start_periodic_measurement", 0, TRUE)>>
    /\ measuring

(***************************************************************************)
(* The loader: health check, download retries, unreachable server.         *)
(***************************************************************************)
\* C26: the health check of the loader has three outcomes.  A turn of the
\* polling loop inside the timeout that finds the marker returns PASS and
\* terminates the subprocess, whether or not the subprocess has already
\* exited, and PASS is returned in no other case; a turn inside the timeout
\* that finds no marker and the subprocess exited returns FAIL; the timeout
\* returns FAIL and leaves no subprocess running; a turn inside the timeout
\* with no marker and the subprocess running decides nothing and polls again.
HealthCheckOutcomes ==
    [][HealthCheckPoll =>
        LET marker == Exists(disk, HEALTH_CHECK_FILE)
        IN
        /\ \E in_time \in BOOLEAN :
              LET out == health_poll(in_time, marker, process)
              IN /\ process' = out.process
                 /\ pc' = out.pc
                 /\ hcResult' = IF out.result = "none" THEN "none" ELSE out.result
        /\ \A in_time \in BOOLEAN :
              LET out == health_poll(in_time, marker, process)
              IN /\ out.result \in {"pass", "fail", "none"}
                 /\ out.result = "pass" <=> (in_time /\ marker)
                 /\ out.result = "pass" => out.process # "running" /\ out.pc = "install_dependencies"
                 /\ (in_time /\ ~marker /\ process # "running") =>
                        out.result = "fail" /\ out.process = process
                 /\ ~in_time => out.result = "fail" /\ out.process # "running"
                 /\ out.result = "fail" => out.pc = "rollback"
                 /\ out.result = "none" <=> (in_time /\ ~marker /\ process = "running")
                 /\ out.result = "none" => out.process = "running" /\ out.pc = "health_poll"]_vars

\* The health check passed on a marker found after the subprocess had exited.
HealthCheckOutcomesWitness ==
    /\ hcResult = "pass"
    /\ process = "exited"
    /\ Exists(disk, HEALTH_CHECK_FILE)
    /\ pc = "install_dependencies"

\* C27: download_file makes at most MAX_DOWNLOAD_RETRIES attempts; a failed
\* attempt that is not the last is followed by the backoff and only the
\* backoff leads to the next attempt; the last failed attempt returns at
\* once, without a backoff; the first attempt that succeeds ends the
\* download.  When every attempt to fetch the main script fails, the update
\* is abandoned: no hash check, health check or rollback follows, the
\* installed script, config and version record are as they were before the
\* update, and the loader goes on to run_main_script.
BoundedDownloadRetry ==
    [][/\ attempt <= MAX_DOWNLOAD_RETRIES - 1
       /\ (attempt' # attempt /\ attempt' # 0) =>
              (pc = "dl_backoff" /\ attempt' = attempt + 1 /\ pc' = "dl_fetch")
       /\ (pc = "dl_backoff" /\ DlBackoff) =>
              (attempt < MAX_DOWNLOAD_RETRIES - 1 /\ pc' = "dl_fetch")
       /\ (pc \in {"dl_fetch", "dl_write"} /\ pc' \notin {"dl_open", "dl_rename"}
           /\ (DlFetch \/ DlWrite)) =>
              IF attempt < MAX_DOWNLOAD_RETRIES - 1
              THEN pc' = "dl_backoff" /\ UNCHANGED <<attempt, dlResult>>
              ELSE /\ pc' \notin DownloadPcs
                   /\ dest = MAIN_SCRIPT =>
                         /\ dlResult' = "failed"
                         /\ pc' = "install_dependencies"
                         /\ \A f \in Managed : disk'[f] = pre[f]
       /\ (pc = "dl_rename" /\ DlRename) =>
              (disk'[dest] = content /\ pc' \notin {"dl_fetch", "dl_backoff"})
       /\ (dlResult = "failed" /\ CycleEnd) =>
              /\ \A f \in Managed : disk[f] = pre[f]
              /\ hcResult = "none" /\ rollbackResult = "none"
              /\ (pc = "install_dependencies" /\ InstallDependencies) =>
                    pc' = "run_main_script"]_vars

\* Every attempt to fetch the main script failed: the loader is about to
\* run the script that was installed before, which was not touched.
BoundedDownloadRetryWitness ==
    /\ dlResult = "failed"
    /\ pc = "run_main_script"
    /\ pre[MAIN_SCRIPT] = Script("sA")
    /\ \A f \in Managed : disk[f] = pre[f]

\* C28: an unreachable update server is not fatal.  When the manifest fetch
\* gave nothing, the branch of main() concludes "unreachable" and goes
\* straight to the end of the cycle: no backup is taken, nothing is
\* downloaded, no health check and no rollback is run, no step from the
\* query to run_main_script touches a file other than requirements.txt, and
\* the loader goes on to run_main_script.
UnreachableServerNotFatal ==
    [][/\ (QueryServer /\ manifest' = NoManifest) => UNCHANGED disk
       /\ (Decide /\ manifest = NoManifest) =>
              /\ decision' = "unreachable"
              /\ pc' = "install_dependencies"
              /\ UNCHANGED <<disk, process>>
       /\ decision = "unreachable" =>
              /\ manifest = NoManifest
              /\ pre = NoSnapshot /\ ~backupFault
              /\ dlResult = "none" /\ hcResult = "none" /\ rollbackResult = "none"
              /\ pc \notin PastBackup \cup {"backup"}
              /\ InstallDependencies =>
                    /\ pc' = "run_main_script"
                    /\ UNCHANGED process
                    /\ \A f \in Managed \cup {BACKUP_DIR} \cup {BackupPath(g) : g \in Managed} :
                          disk'[f] = disk[f]]_vars

\* The server could not be reached and the loader is about to run the
\* installed script.
UnreachableServerNotFatalWitness ==
    /\ decision = "unreachable"
    /\ pc = "run_main_script"
    /\ disk[MAIN_SCRIPT] = Script("sA")
    /\ pre = NoSnapshot

(***************************************************************************)
(* The runtime: the effective telemetry interval.                          *)
(***************************************************************************)
\* C29: in every turn of the loop the interval that decides whether the
\* telemetry is due is LIVE_MODE_INTERVAL if and only if a live-mode window
\* is set and the clock has not passed its end, and the configured
\* send_interval otherwise.  A live_mode command sets the end of the window
\* to now plus its duration, 5 minutes when it names none; live_mode_off
\* sets it to 0, so that the next turn is not live whatever was left of the
\* window.
EffectiveTelemetryInterval ==
    [][/\ PollTick =>
             LET live == live_mode_until # 0 /\ now <= live_mode_until
                 mqtt_interval == IF live THEN LIVE_MODE_INTERVAL ELSE send_interval
             IN /\ tick'.live = "active" <=> live
                /\ tick'.mqtt <=> (now - last_mqtt_send >= mqtt_interval)
                /\ live_mode_until' = IF live THEN live_mode_until ELSE 0
       /\ CommandLiveMode(FALSE) =>
             live_mode_until' = now + DEFAULT_LIVE_MINUTES * SECONDS_PER_MINUTE
       /\ CommandLiveMode(TRUE) =>
             \E twelfths \in 0..MaxDuration : live_mode_until' = now + twelfths * ClockStep
       /\ CommandLiveModeOff => live_mode_until' = 0
       /\ (PollTick /\ tick'.live = "active") =>
             \E window \in {DEFAULT_LIVE_MINUTES * SECONDS_PER_MINUTE}
                           \cup {twelfths * ClockStep : twelfths \in 0..MaxDuration} :
                 /\ live_mode_until - window <= now
                 /\ now <= live_mode_until]_vars

\* A turn inside the default window of five minutes found the telemetry due
\* and sent it.
EffectiveTelemetryIntervalWitness ==
    /\ tick.live = "active"
    /\ tick.mqtt
    /\ tick.published # NoReading
    /\ live_mode_until > now + MaxClockSteps * ClockStep
    /\ last_mqtt_send = now

\* run() 713-720: a read is needed in this turn (the live-mode window decides
\* the telemetry interval).
need_poll ==
    LET live == is_live_mode_active(live_mode_until, now)
        mqtt_interval == IF live.active THEN LIVE_MODE_INTERVAL ELSE send_interval
    IN \/ display_enabled /\ now - last_display_update >= DISPLAY_INTERVAL
       \/ now - last_mqtt_send >= mqtt_interval

\* C31: a turn of the loop in which a read or a publish is due while the
\* broker is disconnected makes one reconnect attempt, reads and publishes
\* nothing and leaves the loop running with its cadences untouched, whether
\* the attempt raised or not; a turn in which the telemetry is due with the
\* broker connected publishes the reading it obtained.
ConnectionLossHandling ==
    [][PollTick =>
           (/\ (need_poll /\ ~connected) =>
                   /\ tick'.reconnects = 1
                   /\ tick'.reads = 0
                   /\ tick'.published = NoReading
                   /\ rpc' = "loop" /\ running' /\ ~raised'
                   /\ last_mqtt_send' = last_mqtt_send
                   /\ last_display_update' = last_display_update
            /\ (need_poll /\ connected) =>
                   /\ tick'.reconnects = 0
                   /\ tick'.reads = 1
                   /\ (tick'.mqtt /\ tick'.reading # NoReading) =>
                          /\ tick'.published = tick'.reading
                          /\ last_mqtt_send' = now
            /\ ~need_poll => tick'.reconnects = 0)]_vars

\* A due turn found the broker disconnected and made its reconnect attempt,
\* the loop is still running and the connection is back.
ConnectionLossHandlingWitness ==
    /\ rpc = "loop" /\ running
    /\ tick.mqtt /\ ~tick.connected
    /\ tick.reconnects = 1
    /\ connected
    /\ now - last_mqtt_send >= send_interval

\* C32 (as claimed): no stop command is lost: once a restart or force_update
\* command has been delivered by the broker callback, at any moment after the
\* subscription, the running flag is never true again, so the loop ends; and
\* a restart command that stops a running loop never finds a force_update
\* flag left set by an earlier command, which would turn its exit code into
\* 100.
StopCommandNeverLost ==
    [][(/\ stopped_by \in {"restart", "force_update"} => ~running'
        /\ (CommandRestart /\ running) => ~force_update_requested)]_vars

\* C33 (as claimed): once a display_off command, or a config push with
\* display_enabled false, has been applied by the callback thread, the
\* physical display stays blank until a display_on is applied, whatever the
\* poll loop was doing when the command arrived.
DisplayStaysBlank ==
    (rpc \in {"loop", "show"} /\ ~display_enabled) => screen = Blank

\* C34 (as claimed): a live_mode command is never undone by the lazy expiry
\* of an older window: while the clock has not passed the end of the window
\* that is set, no step of the poll loop changes the window, and every
\* evaluation by the poll loop reports live mode active; only a live_mode or
\* live_mode_off command changes a window that has not ended.
LiveModeNeverUndone ==
    [][((live_mode_until # 0 /\ now <= live_mode_until)
        /\ (PollTick \/ TickFindsExpired \/ TickClearsWindow)) =>
           (/\ live_mode_until' = live_mode_until
            /\ rpc' = "loop" => tick'.live = "active")]_vars

\* C35 (as claimed): calibration and polling do not overlap on the sensor:
\* from the driver call that pauses the periodic measurement until the
\* calibrate command has restarted it and waited for the first measurement,
\* no read of the sensor is made.
NoReadDuringCalibration ==
    last_read.done => ~last_read.paused

\* C36 (as claimed): the backup snapshot is a single generation: after a
\* BACKUP step that raised nothing, whatever update attempts and force-update
\* restarts came before, each managed file's copy in the backup directory is
\* the file as it was installed at that moment, and a file that was not
\* installed has no copy there; so the version record a successful rollback
\* restores is the one that was installed with the restored script.
SingleGenerationBackup ==
    /\ (pc \in PastBackup /\ ~backupFault) =>
           \A f \in Managed : disk[BackupPath(f)] = pre[f]
    /\ (CycleEnd /\ rollbackResult = "ok" /\ ~backupFault
        /\ Exists(disk, BackupPath(VERSION_FILE))) =>
           disk[VERSION_FILE] = pre[VERSION_FILE]

\* C37 (as claimed): the loader's timeout is consistent with the budget of
\* the self-check: whenever the self-check has written the marker (the sensor
\* initialised, one of its 5 reads returned a reading after the 2 skipped
\* ones, the broker connected within the wait), less than 30 s have passed
\* since the loader started it, so the turn of the loader's polling loop that
\* follows finds the marker in time and returns PASS.
MarkerWithinTimeout ==
    (health_check_mode /\ "written" \in checks) =>
        /\ now - StartTime < HEALTH_CHECK_TIMEOUT
        /\ health_poll(now - StartTime < HEALTH_CHECK_TIMEOUT, TRUE, "running").result
               = "pass"

SelfCheckNeverOutlives ==
    /\ (hcResult # "none" /\ pc # "health_poll") => process # "running"
    /\ pc = "main_running" => process # "running"

\* The minute of the watch at which the local time of user u is the time of
\* day T, and whether the five minutes from it lie inside the watch.
WindowStart(u, T) ==
    CHOOSE t \in StartUtc..(StartUtc + MaxTicks) : now_local(t, UtcOffset[u]).time = T
WindowWatched(u, T) ==
    /\ \E t \in StartUtc..(StartUtc + MaxTicks) : now_local(t, UtcOffset[u]).time = T
    /\ WindowStart(u, T) + REPORT_WINDOW - 1 <= StartUtc + MaxTicks
\* The minute of the watch at which a report was fired.
FiredAt(r) ==
    r.date * MinutesPerDay + r.time.hour * MINUTES_PER_HOUR + r.time.minute
        - UtcOffset[r.user]
\* The tick of minute t has checked user number i of the list.
TickChecked(t, i) == utc > t \/ (utc = t /\ next_user > i)

(***************************************************************************)
(* C40: scheduled reports are fired.  With the loop ticking once a minute, *)
(* a report type that a user has enabled with the local time T is fired    *)
(* to that user within the five minutes from T that the process runs       *)
(* through, and the morning report never keeps the evening report of the   *)
(* same day from being fired, nor the evening report the morning report.   *)
(***************************************************************************)
ReportsFiredInWindow ==
    \A i \in 1..Len(UserOrder) : \A type \in {"morning", "evening"} :
        LET u == UserOrder[i]
            enabled == IF type = "morning" THEN users[u].morning_report_enabled
                       ELSE users[u].evening_report_enabled
            T == IF type = "morning" THEN users[u].morning_report_time
                 ELSE users[u].evening_report_time
        IN (/\ enabled
            /\ WindowWatched(u, T)
            /\ TickChecked(WindowStart(u, T) + REPORT_WINDOW - 1, i))
           => \E r \in reports :
                  /\ r.user = u
                  /\ r.type = type
                  /\ FiredAt(r) >= WindowStart(u, T)
                  /\ FiredAt(r) < WindowStart(u, T) + REPORT_WINDOW

====
